---- MODULE Spec2Model ----
(***************************************************************************)
(* Reference-processing pipeline of the Wikipedia reference downloader.    *)
(*                                                                         *)
(* Five entry points are modelled, one per run (variable entry):           *)
(*   "render" : one call of renderUrlToPdf            (src/lib/pdf.ts)     *)
(*   "server" : one POST /api/process-references-batch                     *)
(*   "client" : one handleSubmit run of the page      (src/app/page.tsx)   *)
(*   "job"    : one reference classified and processed by one of the       *)
(*              routes (isPdfUrl, downloadPdf or renderUrlToPdf)           *)
(*   "zip"    : one archive assembled by POST /api/create-zip, by POST     *)
(*              /api/process-article or by a call of createZip             *)
(* A run is followed from its start to its end without the user            *)
(* abandoning it.                                                          *)
(*                                                                         *)
(* An error message is modelled by the set of the substrings it contains   *)
(* among those the code tests with includes(), plus one marker naming the  *)
(* text, because every decision the code takes on an error is a substring  *)
(* test on its message.                                                    *)
(***************************************************************************)
EXTENDS Integers, Sequences, FiniteSets, TLC

\* ------------------------------------------------------------------ bounds

\* longest reference list submitted to the client worker pool
MaxRefs == 5
\* longest reference list posted to the batch route
MaxSrvRefs == 3
\* largest batchSize of the request body, besides the default and the ceiling
MaxBatchSize == 3
\* smallest batchSize of the request body is -MaxNegBatch
MaxNegBatch == 2
\* the chunk index is followed down to -MaxDescent (below 0 every chunk is empty)
MaxDescent == 3

\* in runs over at most MaxRichRefs references every kind of failure message
\* is followed and the render attempts are counted; in runs over longer lists
\* three kinds of message stand for all and the attempts are not counted
MaxRichRefs == 1

\* longest list of references or files whose archive is followed in detail
MaxZipRefs == 2
\* most chunks the archiver emits
MaxChunks == 3
\* longest reference list of the runs checked for termination
MaxFairRefs == 3

\* ------------------------------------------------------------------ helpers

Min(a, b) == IF a < b THEN a ELSE b

Max(a, b) == IF a > b THEN a ELSE b

\* Array.prototype.slice(start, end) on a sequence (0-based, end exclusive,
\* negative positions count from the end)
SliceBound(k, n) == IF k < 0 THEN Max(n + k, 0) ELSE Min(k, n)

\* a chunk that stops one element early
SliceDropLast(s, start, end) ==
  LET from == SliceBound(start, Len(s))
      to   == SliceBound(end, Len(s)) - 1
  IN  IF to <= from THEN << >> ELSE SubSeq(s, from + 1, to)

Slice(s, start, end) ==
  LET from == SliceBound(start, Len(s))
      to   == SliceBound(end, Len(s))
  IN  IF to <= from THEN << >> ELSE SubSeq(s, from + 1, to)

\* ------------------------------------------------------- renderUrlToPdf: errors

NoError == {}

\* messages an awaited browser operation can reject with
\*   "Failed to launch the browser process"
ErrGeneric         == {"failed to launch the browser process"}
\*   "Execution context was destroyed, most likely because of a navigation."
ErrContext         == {"execution context", "navigation"}
\*   "Protocol error (Runtime.callFunctionOn): Target closed."
ErrTargetClosed    == {"protocol error", "target closed"}
\*   "Protocol error (Page.printToPDF): Printing failed"
ErrPrinting        == {"protocol error", "printing failed"}
\*   "net::ERR_CONNECTION_RESET at <url>"
ErrNet             == {"net::", "err_connection_reset"}
\*   "net::ERR_HTTP2_PROTOCOL_ERROR at <url>"
ErrHttp2           == {"net::", "err_http2"}
\*   "net::ERR_BLOCKED_BY_CLIENT at <url>"
ErrBlockedByClient == {"net::", "err_blocked_by_client"}

BrowserErrors ==
  { ErrGeneric, ErrContext, ErrTargetClosed, ErrPrinting, ErrNet, ErrHttp2,
    ErrBlockedByClient }

\* messages the code itself builds
\*   "Page was closed during navigation"
ErrPageClosed == {"page was closed during", "navigation"}
\*   "[CAPTCHA_BLOCKED] <reason>": no reason of BLOCK_PAGE_PATTERNS holds one
\*   of the substrings isRetryable looks for
ErrBlocked == {"[captcha_blocked]", "publisher requires human verification"}
\*   "Execution context was destroyed during PDF generation"
ErrContextDestroyed == {"execution context", "was destroyed during pdf generation"}
\*   "PDF generation failed. Some page resources were blocked (n requests).
\*    ... Original error: <message>"
WrapBlocked(e) == e \cup {"some page resources were blocked"}

maxRetries == 2

\* how a page.goto() ends: resolved, TimeoutError, or another error
\* (net::ERR_NAME_NOT_RESOLVED, net::ERR_CONNECTION_REFUSED, ...)
NavOutcomes == {"ok", "timeout", "error"}

\* the capture error mapping of the try around page.pdf()
MapPdfError(e, blocked) ==
  IF "execution context" \in e \/ "target closed" \in e
    THEN ErrContextDestroyed
    ELSE IF blocked THEN WrapBlocked(e) ELSE e

\* every error retried
IsRetryableAny(m) == TRUE

IsRetryable(m) ==
  \/ "execution context" \in m
  \/ "target closed" \in m
  \/ "navigation" \in m
  \/ "err_http2" \in m
  \/ "protocol error" \in m
  \/ ("net::" \in m /\ "err_blocked_by_client" \notin m)

IsBlockedByClient(m) == "err_blocked_by_client" \in m

\* attempt <= maxRetries in place of attempt < maxRetries
ShouldRetryOffByOne(m, a) == IsRetryable(m) /\ a <= maxRetries

ShouldRetry(m, a) == IsRetryable(m) /\ a < maxRetries

\* ------------------------------------------------------- batch: inputs

\* a reference is modelled by its id; the lists have pairwise distinct ids
Ascending(n) == [k \in 1..n |-> k]

Descending(n) == [k \in 1..n |-> n + 1 - k]

\* the lists a request body can hold
RefLists(max) == UNION {{Ascending(n), Descending(n)} : n \in 0..max}

\* the lists extractReferences returns: ids 1, 2, ... in order
ExtractedLists(max) == {Ascending(n) : n \in 0..max}

Ids(list) == {list[k] : k \in DOMAIN list}

\* messages downloadPdf throws
\*   "Failed to download PDF: 404 Not Found"
ErrHttpStatus      == {"failed to download pdf", "404 not found"}
\*   "Failed to download PDF: Request timeout (120s exceeded)"
ErrDownloadTimeout == {"failed to download pdf", "request timeout"}
\*   "Failed to download PDF: Network error or timeout"
ErrDownloadNetwork == {"failed to download pdf", "network error or timeout"}

\* what downloadPdf or renderUrlToPdf can throw to processSingleReference
JobErrors ==
  {ErrHttpStatus, ErrDownloadTimeout, ErrDownloadNetwork, ErrBlocked, ErrNet}

\* how one downloadPdf / renderUrlToPdf call ends: NoError is a returned buffer
JobOutcomes == {NoError} \cup JobErrors

\* the outcomes followed in a batch of n references: in a batch longer than
\* MaxSrvRefs every call returns a buffer
SrvOutcomesOf(n) == IF n > MaxSrvRefs THEN {NoError} ELSE JobOutcomes

\* ------------------------------------------- POST /api/process-references-batch

DefaultBatchSize == 10

ServerCeiling == 20

\* batchSize values of the request body (an absent one is the default)
BatchSizes ==
  ((0 - MaxNegBatch)..MaxBatchSize)
    \cup {DefaultBatchSize, ServerCeiling, ServerCeiling + 1}

MaxBatchSizeOf(bs) == Min(bs, ServerCeiling)

ActualBatchSize(bs, n) == Min(MaxBatchSizeOf(bs), n)

\* the catch clause of processSingleReference rewrites the message
SrvErrorMessage(m) ==
  IF "[captcha_blocked]" \in m THEN m \ {"[captcha_blocked]"}
  ELSE IF "err_blocked_by_client" \in m THEN {"page resources were blocked"}
  ELSE m

\* processSingleReference(ref), given how its download or render ended
ProcessSingleReference(id, outcome) ==
  IF outcome = NoError
    THEN [id |-> id, status |-> "downloaded", error |-> NoError]
    ELSE [id |-> id, status |-> "failed", error |-> SrvErrorMessage(outcome)]

\* Promise.all(batch.map(processSingleReference)): one result per element, in
\* the order of the batch
BatchResults(b, outcomes) ==
  [k \in DOMAIN b |-> ProcessSingleReference(b[k], outcomes[k])]

\* a count that ignores the status
CountStatusAny(rs, st) == Len(rs)

CountStatus(rs, st) == Cardinality({k \in DOMAIN rs : rs[k].status = st})

\* the chunk index is followed down to -MaxDescent: below 0 every chunk is
\* empty, whatever the index
CapIndex(x) == Max(x, 0 - MaxDescent)

\* ------------------------------------------------------- handleSubmit (client)

ClientCeiling == 4

\* messages processReference can end with (substrings in the letter case the
\* client tests them in)
\*   the route answered status failed: "[CAPTCHA_BLOCKED] <reason>"
CliErrBlocked == {"[CAPTCHA_BLOCKED]", "Publisher requires human verification"}
\*   the 2 minute timer aborted the fetch:
\*   "Request timeout: Processing took too long (2 minutes)"
CliErrAbort   == {"Request timeout", "timeout"}
\*   the fetch failed: "Failed to fetch"
CliErrFetch   == {"Failed to fetch", "fetch"}

ClientErrors == {CliErrBlocked, CliErrAbort, CliErrFetch}

\* how one processReference call ends: NoError is a downloaded answer
ClientOutcomes == {NoError} \cup ClientErrors

\* further messages the route answers with status failed
\*   "Failed to download PDF: Failed to download PDF: 404 Not Found"
CliErrHttp404 == {"Failed to download PDF", "404 Not Found"}
\*   "Failed to download PDF: Failed to download PDF: 511 Network Authentication Required"
CliErrHttp511 ==
  {"Failed to download PDF", "511 Network Authentication Required", "Network"}
\*   "Failed to download PDF: Request timeout (120s exceeded)"
CliErrDownloadTimeout == {"Failed to download PDF", "Request timeout", "timeout"}
\*   "[CAPTCHA_BLOCKED] Publisher reports this page was not found (404)."
CliErrNotFound ==
  {"[CAPTCHA_BLOCKED]", "Publisher reports this page was not found (404)."}
\*   "Protocol error (Page.printToPDF): Printing failed"
CliErrPrinting == {"Protocol error", "Printing failed"}

\* the failures of a direct-document fetch
DownloadErrors == {CliErrHttp404, CliErrHttp511, CliErrDownloadTimeout}

AllClientErrors ==
  ClientErrors \cup DownloadErrors \cup {CliErrNotFound, CliErrPrinting}

\* the outcomes followed in a run over n references
ClientOutcomesOf(n) ==
  IF n <= MaxRichRefs THEN {NoError} \cup AllClientErrors ELSE ClientOutcomes

\* the number of render attempts one request to the route can have started
\* when processReference ends with outcome o: none for a direct document
\* (or a request that never reached the route), 1..maxRetries + 1 inside
\* renderUrlToPdf
RenderAttemptsOf(n, o) ==
  IF n > MaxRichRefs \/ o \in DownloadErrors THEN {0}
  ELSE IF o \in {CliErrBlocked, CliErrNotFound, CliErrPrinting}
         THEN 1..(maxRetries + 1)
         ELSE 0..(maxRetries + 1)

\* no ceiling on the pool
ClientConcurrencyUnbounded(n) == n

\* const concurrency = Math.min(4, totalReferences)
ClientConcurrency(n) == Min(ClientCeiling, n)

\* Array(Math.min(limit, items.length))
WorkerCount(limit, n) == Min(limit, n)

\* the index read but not advanced
PostIncrementStuck(idx) == idx

\* index++ : the value index has afterwards
PostIncrement(idx) == idx + 1

\* setReferences(prev => prev.map(r => r.id === id ? {...r, status: 'processing'} : r))
MarkProcessing(rs, id) ==
  [k \in DOMAIN rs |->
     IF rs[k].id = id THEN [rs[k] EXCEPT !.status = "processing"] ELSE rs[k]]

\* a failure written to every reference (the r.id === id test forgotten)
UpdateReferenceAll(rs, id, outcome) ==
  [k \in DOMAIN rs |->
     IF outcome = NoError
       THEN IF rs[k].id = id
              THEN [id |-> id, status |-> "downloaded", error |-> NoError,
                    pdfFilename |-> TRUE]
              ELSE rs[k]
       ELSE [rs[k] EXCEPT !.status = "failed", !.error = outcome]]

\* the messages processReference throws itself (the fetch was aborted or
\* failed); every other message comes in an answer of the route
ThrownByClient == {CliErrAbort, CliErrFetch}

\* the setReferences of processReference once the request ended: an answer
\* of the route sets status, pdfFilename and error; the catch clause sets
\* status and error and keeps the rest
UpdateReference(rs, id, outcome) ==
  [k \in DOMAIN rs |->
     IF rs[k].id = id
       THEN IF outcome = NoError
              THEN [id |-> id, status |-> "downloaded", error |-> NoError,
                    pdfFilename |-> TRUE]
            ELSE IF outcome \in ThrownByClient
              THEN [rs[k] EXCEPT !.status = "failed", !.error = outcome]
            ELSE [id |-> id, status |-> "failed", error |-> outcome,
                  pdfFilename |-> FALSE]
       ELSE rs[k]]

\* r.error.includes('timeout') || r.error.includes('Network') || r.error.includes('fetch')
IsTransient(m) == "timeout" \in m \/ "Network" \in m \/ "fetch" \in m

\* every reference replayed
FailedRefsAll(rs) == rs

\* currentRefs.filter(r => r.status === 'failed' && r.error && transient)
FailedRefs(rs) ==
  SelectSeq(rs, LAMBDA r : r.status = "failed" /\ r.error # NoError
                           /\ IsTransient(r.error))

Range(s) == {s[k] : k \in DOMAIN s}

\* refs.filter(r => r.status === 'downloaded' && r.sourceUrl)
DownloadedRefs(rs) == SelectSeq(rs, LAMBDA r : r.status = "downloaded")

\* how the request to /api/create-zip ends: with the archive, with an error
\* answer of the route, or without reaching the route
ZipOutcomes == {"archive", "route error", "network error"}

\* the references of the final result
ReportReferences(rs) ==
  [k \in DOMAIN rs |->
     [id |-> rs[k].id,
      status |-> IF rs[k].status = "downloaded" THEN "downloaded" ELSE "failed",
      pdfFilename |-> rs[k].pdfFilename,
      error |-> IF rs[k].error # NoError THEN rs[k].error
                ELSE IF rs[k].status = "pending"
                       THEN {"Processing was interrupted"} ELSE NoError]]

\* a result that is emptied when no archive was made
FinalResultNeedsZip(rs, total, zipBase64) ==
  IF zipBase64
    THEN [total |-> total,
          successCount |-> CountStatus(rs, "downloaded"),
          failedCount |-> CountStatus(rs, "failed"),
          zip |-> zipBase64,
          references |-> ReportReferences(rs)]
    ELSE [total |-> total, successCount |-> 0, failedCount |-> 0,
          zip |-> FALSE, references |-> << >>]

\* the setResult that ends handleSubmit
FinalResult(rs, total, zipBase64) ==
  [total |-> total,
   successCount |-> CountStatus(rs, "downloaded"),
   failedCount |-> CountStatus(rs, "failed"),
   zip |-> zipBase64,
   references |-> ReportReferences(rs)]

\* one turn of the worker loop up to its await, on the pool state
\* st = [index, workers, references, takenBy]:
\*   const currentIndex = index++; if (currentIndex >= items.length) break;
\*   processReference(items[currentIndex])
Take(st, w, items) ==
  LET currentIndex == st.index IN
  IF currentIndex >= Len(items)
    THEN [st EXCEPT !.index = PostIncrement(currentIndex),
                    !.workers[w] = [pc |-> "done", currentIndex |-> 0 - 1]]
    ELSE [st EXCEPT !.index = PostIncrement(currentIndex),
                    !.workers[w] = [pc |-> "await", currentIndex |-> currentIndex],
                    !.references = MarkProcessing(@, items[currentIndex + 1]),
                    !.takenBy[currentIndex] = @ + 1]

\* .map(() => worker()): the workers 1..n started one after the other, each
\* running up to its first await
RECURSIVE StartWorkers(_, _, _)
StartWorkers(st, n, items) ==
  IF n = 0 THEN st ELSE Take(StartWorkers(st, n - 1, items), n, items)

\* ------------------------------------------------------- isPdfUrl, dispatch

\* A URL string is a sequence of characters; the piece "https://example.org"
\* (scheme and host) counts as one character.
Origin == << "https://example.org" >>

Dot == "."

PdfSuffix == << Dot, "p", "d", "f" >>

\* how the strings submitted as sourceUrl are built: an origin or none (a
\* relative string such as "/a.pdf", or the empty string), a path, a query
\* string and a fragment
UrlOrigins == { Origin, << >> }

UrlPaths ==
  { << >>,
    << "/", "a" >>,
    << "/", "a", Dot, "p", "d", "f" >>,
    << "/", "a", Dot, "P", "D", "F" >>,
    << "/", "a", Dot, "P", "d", "f" >>,
    << "/", "a", Dot, "p", "d", "f", "/" >>,
    << "/", "a", Dot, "p", "d", "f", "x" >>,
    << "/", Dot, "p", "d", "f" >>,
    << "/", "a", "p", "d", "f" >> }

UrlQueries ==
  { << >>,
    << "?", "x" >>,
    << "?", Dot, "p", "d", "f" >>,
    << "?", "u", "/", "b", Dot, "p", "d", "f" >> }

UrlFragments ==
  { << >>,
    << "#", "x" >>,
    << "#", Dot, "p", "d", "f" >> }

UrlParts ==
  [origin : UrlOrigins, path : UrlPaths, query : UrlQueries,
   fragment : UrlFragments]

UrlString(u) == u.origin \o u.path \o u.query \o u.fragment

\* position of the first c in s, Len(s) + 1 if there is none
FirstIndex(s, c) ==
  IF \E k \in DOMAIN s : s[k] = c
    THEN CHOOSE k \in DOMAIN s : s[k] = c /\ \A j \in 1..(k - 1) : s[j] # c
    ELSE Len(s) + 1

\* new URL(url): throws on a string without a scheme; pathname is what
\* stands between the host and the first "?" or "#", "/" if that is empty
ParseUrl(url) ==
  IF url = << >> \/ Head(url) # Origin[1]
    THEN [ok |-> FALSE, pathname |-> << >>]
    ELSE LET rest == Tail(url)
             stop == Min(FirstIndex(rest, "?"), FirstIndex(rest, "#"))
             path == SubSeq(rest, 1, stop - 1)
         IN  [ok |-> TRUE,
              pathname |-> IF path = << >> THEN << "/" >> ELSE path]

\* toLowerCase left out
ToLowerCaseIdentity(s) == s

\* String.prototype.toLowerCase on the characters used here
ToLowerCase(s) ==
  [k \in DOMAIN s |->
     CASE s[k] = "P" -> "p"
       [] s[k] = "D" -> "d"
       [] s[k] = "F" -> "f"
       [] OTHER -> s[k]]

\* String.prototype.endsWith
EndsWith(s, suffix) ==
  /\ Len(s) >= Len(suffix)
  /\ SubSeq(s, Len(s) - Len(suffix) + 1, Len(s)) = suffix

isPdfUrl(url) ==
  LET urlObj == ParseUrl(url) IN
  IF urlObj.ok
    THEN EndsWith(ToLowerCase(urlObj.pathname), PdfSuffix)
    ELSE FALSE

\* every URL rendered
DispatchAlwaysRender(url) == "renderUrlToPdf"

\* if (isPdfUrl(sourceUrl)) downloadPdf(sourceUrl) else renderUrlToPdf(sourceUrl)
Dispatch(url) == IF isPdfUrl(url) THEN "downloadPdf" ELSE "renderUrlToPdf"

\* the four routes that process a reference
Routes ==
  { "process-reference", "process-references-batch", "create-zip",
    "process-article" }

\* the routes that leave out a reference whose sourceUrl is falsy (the empty
\* string): process-reference answers 400, create-zip skips it, process-article
\* filters it out; the batch route has no such test
RoutesCheckingFields == { "process-reference", "create-zip", "process-article" }

\* what the remote server of a direct document does: answers with the
\* document, answers 200 with a body of no bytes, answers with an error
\* status, refuses the connection, never answers, sends the headers and then
\* stalls, or breaks off during the body
RemoteBehaviours ==
  { "answers", "empty", "error-status", "refuses", "silent", "stalls", "breaks" }

\* the length of the body, in bytes, by what the remote server does
BodyLength(behaviour) == IF behaviour = "empty" THEN 0 ELSE 1

\* pdfBuffer.toString('base64'): the length of the string for n bytes
Base64Length(n) == 4 * ((n + 2) \div 3)

\* messages downloadPdf throws besides ErrDownloadTimeout and ErrDownloadNetwork
\*   the status error is thrown inside the try and wrapped by its catch:
\*   "Failed to download PDF: Failed to download PDF: 404 Not Found"
ErrHttpStatusWrapped == ErrHttpStatus \cup {"failed to download pdf: failed to download pdf"}
\*   "Failed to download PDF: terminated"
ErrDownloadBroken == {"failed to download pdf", "terminated"}

\* what renderUrlToPdf can throw to a route
RenderThrows == {ErrBlocked, ErrGeneric, ErrPrinting, ErrContextDestroyed}

\* processReference's route (POST /api/process-reference), given how its
\* download or render ended: the message is passed on as it is
ProcessReferenceRoute(id, outcome) ==
  IF outcome = NoError
    THEN [id |-> id, status |-> "downloaded", error |-> NoError]
    ELSE [id |-> id, status |-> "failed", error |-> outcome]

\* the body process-reference and processSingleReference answer with, given
\* the result recorded and the length of pdfBuffer: pdfFilename is set or
\* not, pdfBase64 is given by its length (0 when absent)
JobAnswer(result, length) ==
  IF result.status = "downloaded"
    THEN [status |-> "downloaded", error |-> NoError, pdfFilename |-> TRUE,
          pdfBase64 |-> Base64Length(length)]
    ELSE [status |-> result.status, error |-> result.error, pdfFilename |-> FALSE,
          pdfBase64 |-> 0]

\* processReference: if (data.status === 'downloaded' && data.pdfBase64)
StoresBuffer(data) == data.status = "downloaded" /\ data.pdfBase64 # 0

\* what a route records for the reference, given how its download or render
\* ended; create-zip logs a failure and leaves the reference out
RouteResult(route, id, outcome) ==
  CASE route = "process-references-batch" -> ProcessSingleReference(id, outcome)
    [] route = "create-zip" ->
         [id |-> id,
          status |-> IF outcome = NoError THEN "packed" ELSE "omitted",
          error |-> NoError]
    [] OTHER -> ProcessReferenceRoute(id, outcome)

\* ------------------------------------------------------- archive assembly

\* if (references.length > 250)
MaxZipFiles == 250

\* if (filename.length > 80)
MaxFilenameLength == 80

\* const maxSize = 500 * 1024 * 1024
maxSize == 500 * 1024 * 1024

\* chunk.length of the chunks the archiver emits
ChunkSizes == {1, maxSize \div 2}

\* a string is the sequence of its characters
PathHostile == {"/", "\\", ":", "*", "?", "\"", "<", ">", "|"}

\* String.prototype.replace with a character class and the g flag
ReplaceAll(s, cs, c) == [k \in DOMAIN s |-> IF s[k] \in cs THEN c ELSE s[k]]

\* filename.replace(/^[.\s]+|[.\s]+$/g, '')
StripEdges(s) ==
  LET kept == {k \in DOMAIN s : s[k] \notin {".", " "}} IN
  IF kept = {} THEN << >>
  ELSE SubSeq(s, CHOOSE k \in kept : \A j \in kept : k <= j,
                 CHOOSE k \in kept : \A j \in kept : k >= j)

DigitChars == << "0", "1", "2", "3", "4", "5", "6", "7", "8", "9" >>

\* `${id}` of a non-negative integer
RECURSIVE IdString(_)
IdString(id) ==
  IF id < 10 THEN << DigitChars[id + 1] >>
  ELSE IdString(id \div 10) \o << DigitChars[(id % 10) + 1] >>

sanitizeFilename(title, id) ==
  LET replaced  == ReplaceAll(title, PathHostile, "_")
      stripped  == StripEdges(replaced)
      truncated == IF Len(stripped) > MaxFilenameLength
                     THEN SubSeq(stripped, 1, MaxFilenameLength)
                     ELSE stripped
  IN  IF truncated = << >> \/ \A k \in DOMAIN truncated : truncated[k] = " "
        THEN << "R", "e", "f", "e", "r", "e", "n", "c", "e", "_" >> \o IdString(id)
        ELSE truncated

\* a file name that leaves the reference id out
PdfFilenameNoId(ref) ==
  IF ref.direct /\ EndsWith(ref.urlFilename, PdfSuffix)
    THEN ref.urlFilename
    ELSE sanitizeFilename(ref.title, ref.id) \o PdfSuffix

\* a route that keeps the name of every direct document
PdfFilenameAnyCase(ref) ==
  IF ref.direct
    THEN IdString(ref.id) \o << " ", "-", " " >> \o ref.urlFilename
    ELSE IdString(ref.id) \o << " ", "-", " " >>
           \o sanitizeFilename(ref.title, ref.id) \o PdfSuffix

\* variable pdfFilename of the routes: ref.direct is isPdfUrl(ref.sourceUrl),
\* ref.urlFilename is the last segment of the URL's path
PdfFilename(ref) ==
  IF ref.direct /\ EndsWith(ref.urlFilename, PdfSuffix)
    THEN IdString(ref.id) \o << " ", "-", " " >> \o ref.urlFilename
    ELSE IdString(ref.id) \o << " ", "-", " " >>
           \o sanitizeFilename(ref.title, ref.id) \o PdfSuffix

\* a sanitization that replaces the first match only
SanitizedFilenameFirst(filename) ==
  [k \in DOMAIN filename |->
     IF filename[k] \in PathHostile /\ \A j \in 1..(k - 1) : filename[j] \notin PathHostile
       THEN "_" ELSE filename[k]]

\* file.filename.replace(/[<>:"/\\|?*]/g, '_')
SanitizedFilename(filename) == ReplaceAll(filename, PathHostile, "_")

\* files.forEach of createZip: the entries appended to the archive, a file
\* without a name or without content being skipped
Appended(files) ==
  LET kept == SelectSeq(files, LAMBDA f : f.filename # << >> /\ f.content) IN
  [k \in DOMAIN kept |->
     [name |-> SanitizedFilename(kept[k].filename), of |-> kept[k].of]]

\* a title of more than 80 characters with a reserved character in it
LongTitle ==
  [k \in 1..(MaxFilenameLength + 2) |-> IF k = MaxFilenameLength THEN "?" ELSE "a"]

\* the references a request to create-zip or an article can carry: titles
\* that sanitize to one name, a title that sanitizes to nothing, direct
\* documents named in either letter case, an overlong title, and a reference
\* without an id
ZipCatalogue ==
  { [id |-> 1, title |-> << "a", "/", "b" >>, direct |-> FALSE, urlFilename |-> << >>],
    [id |-> 11, title |-> << "a", "_", "b" >>, direct |-> FALSE, urlFilename |-> << >>],
    [id |-> 2, title |-> << "a", "?" >>, direct |-> TRUE,
     urlFilename |-> << "a", ":", "b", ":", "c", ".", "p", "d", "f" >>],
    [id |-> 3, title |-> << ".", " " >>, direct |-> TRUE,
     urlFilename |-> << "A", ".", "P", "D", "F" >>],
    [id |-> 4, title |-> LongTitle, direct |-> FALSE, urlFilename |-> << >>],
    [id |-> 0, title |-> << "a" >>, direct |-> FALSE, urlFilename |-> << >>] }

\* lists of at most n different references
ZipRequests(n) ==
  { s \in UNION { [1..k -> ZipCatalogue] : k \in 0..n } :
      \A a, b \in DOMAIN s : a # b => s[a] # s[b] }

\* a list of n references numbered from 1
ZipLongList(n) ==
  [k \in 1..n |-> [id |-> k, title |-> << "a" >>, direct |-> FALSE, urlFilename |-> << >>]]

\* the files createZip can be handed by a caller of the library: one without
\* a name, one without content, one whose name holds reserved characters
DirectFiles ==
  { [filename |-> << >>, content |-> TRUE, of |-> 0],
    [filename |-> << "x" >>, content |-> FALSE, of |-> 0],
    [filename |-> << "a", "<", "b", ">" >>, content |-> TRUE, of |-> 0] }

DirectFileLists(n) == UNION { [1..k -> DirectFiles] : k \in 0..n }

\* how the download or render of one reference ends inside a route
ZipJobOutcomes(n) ==
  IF n > MaxZipRefs THEN {NoError} ELSE {NoError, ErrDownloadTimeout}

\* if (!ref.id || !ref.sourceUrl || !ref.title): every reference modelled
\* carries a sourceUrl
InvalidReference(ref) == ref.id = 0 \/ ref.title = << >>

\* a route without a ceiling
ExceedsCeilingNever(n) == FALSE

\* references.length > 250
ExceedsCeiling(n) == n > MaxZipFiles

\* the messages createZip rejects with and those the create-zip route races
\* against it, by the substrings the route tests
CzErrTimeout == {"timeout", "ZIP creation timeout: Archive is too large or taking too long"}
CzErrSize == {"size limit", "ZIP archive exceeds maximum size limit (500MB)"}
ArchiverErrors == {{"archiver"}, {"archiver", "memory"}}
RaceErrTimeout == {"timeout", "ZIP creation timeout"}

\* the catch clause of the create-zip route
CreateZipStatus(message) ==
  IF "timeout" \in message THEN 504
  ELSE IF "size limit" \in message \/ "memory" \in message THEN 413
  ELSE 500

CreateZipError(message) ==
  IF "timeout" \in message
    THEN "ZIP creation timed out. Try with fewer files or contact support."
  ELSE IF "size limit" \in message \/ "memory" \in message
    THEN "ZIP archive is too large. Maximum size is 500MB."
  ELSE "Failed to create ZIP"

NoPromise == [state |-> "none", reason |-> NoError]
Pending == [state |-> "pending", reason |-> NoError]
Resolved == [state |-> "resolved", reason |-> NoError]
Rejected(reason) == [state |-> "rejected", reason |-> reason]

\* a promise that can be settled again
SettleAgain(p, outcome) == outcome

\* resolve and reject act on a pending promise only
Settle(p, outcome) == IF p.state = "pending" THEN outcome ELSE p

\* the body a route answers with
ZipResponse(status, zip, error, rs) ==
  [status |-> status, zip |-> zip, error |-> error, references |-> rs,
   successCount |-> Len(SelectSeq(rs, LAMBDA r : r.status = "downloaded")),
   failedCount |-> Len(SelectSeq(rs, LAMBDA r : r.status = "failed"))]

NoResponse == [status |-> 0]

\* ------------------------------------------------------- detectAccessBlocker

\* A page text or a URL is a sequence of words; a word stands for a run of
\* characters that no marker straddles.

\* lengths of the texts tried
MaxHtmlPieces == 2
MaxUrlPieces == 1

\* String.prototype.toLowerCase, word by word
LowerWords(s) ==
  [k \in DOMAIN s |->
     CASE s[k] = "Access" -> "access"
       [] s[k] = "DENIED" -> "denied"
       [] s[k] = "Human" -> "human"
       [] s[k] = "G-Recaptcha" -> "g-recaptcha"
       [] s[k] = "CAPTCHA" -> "captcha"
       [] s[k] = "Blocked" -> "blocked"
       [] OTHER -> s[k]]

\* String.prototype.includes
Includes(s, sub) ==
  \E k \in 0..(Len(s) - Len(sub)) : SubSeq(s, k + 1, k + Len(sub)) = sub

\* the strings the regex /verify you (are|re) (a )?(human|robot)/ matches
VerifyYou ==
  { << "verify", "you" >> \o are \o a \o who :
      are \in { << "are" >>, << "re" >> },
      a \in { << >>, << "a" >> },
      who \in { << "human" >>, << "robot" >> } }

\* the list of { regex, reason }: a regex is the set of strings it matches
BLOCK_PAGE_PATTERNS ==
  << [regex |-> { << "please", "confirm", "you", "are", "human" >> },
      reason |-> "Publisher requires human verification (CAPTCHA)."],
     [regex |-> { << "slide", "right", "to", "complete", "the", "puzzle" >> },
      reason |-> "Publisher requires human verification (slider CAPTCHA)."],
     [regex |-> { << "complete", "the", "security", "check" >> },
      reason |-> "Publisher requires a security verification (CAPTCHA)."],
     [regex |-> { << "press", "and", "hold" >> },
      reason |-> "Publisher requires human verification (press-and-hold challenge)."],
     [regex |-> VerifyYou,
      reason |-> "Publisher requires human verification (CAPTCHA)."],
     [regex |-> { << "before", "we", "can", "let", "you", "continue" >> },
      reason |-> "Publisher is gating the content with a verification step."],
     [regex |-> { << "unusual", "traffic" >> },
      reason |-> "Publisher detected unusual traffic and blocked automated access."],
     [regex |-> { << "access", "denied" >> },
      reason |-> "Publisher denied access (likely due to automated detection)."],
     [regex |-> { << "article", "not", "found" >> },
      reason |-> "Publisher reports this article is not available or was removed."],
     [regex |-> { << "page", "not", "found" >> },
      reason |-> "Publisher reports this page was not found (404)."],
     [regex |-> { << "not", "found", "on", "this", "website" >> },
      reason |-> "Publisher reports this page was not found on the site."],
     [regex |-> { << "cf-captcha" >>, << "cf-chl" >> },
      reason |-> "Cloudflare CAPTCHA challenge detected."],
     [regex |-> { << "bot", "detection" >> },
      reason |-> "Publisher triggered bot detection and blocked access."] >>

\* regex.test(s)
Test(regex, s) == \E m \in regex : Includes(s, m)

UrlMarkers == { "captcha", "verify", "blocked" }

WidgetMarkers == { "g-recaptcha", "hcaptcha", "cf-turnstile" }

RedirectReason == "Publisher redirected to a verification / CAPTCHA page."

WidgetReason == "Publisher is showing a CAPTCHA widget."

\* return null
NoReason == "null"

\* the reason of the last pattern of the list that matches
detectAccessBlockerLast(html, pageUrl) ==
  LET lowerHtml == LowerWords(html)
      lowerUrl == LowerWords(pageUrl)
      hits == { k \in DOMAIN BLOCK_PAGE_PATTERNS :
                  Test(BLOCK_PAGE_PATTERNS[k].regex, lowerHtml) }
  IN  IF \E m \in UrlMarkers : Includes(lowerUrl, << m >>)
        THEN RedirectReason
      ELSE IF hits # {}
        THEN BLOCK_PAGE_PATTERNS[CHOOSE k \in hits : \A j \in hits : j <= k].reason
      ELSE IF \E m \in WidgetMarkers : Includes(lowerHtml, << m >>)
        THEN WidgetReason
      ELSE NoReason

\* the for loop over BLOCK_PAGE_PATTERNS from indicator k on
RECURSIVE FirstIndicator(_, _)
FirstIndicator(lowerHtml, k) ==
  IF k > Len(BLOCK_PAGE_PATTERNS) THEN NoReason
  ELSE IF Test(BLOCK_PAGE_PATTERNS[k].regex, lowerHtml)
    THEN BLOCK_PAGE_PATTERNS[k].reason
  ELSE FirstIndicator(lowerHtml, k + 1)

detectAccessBlocker(html, pageUrl) ==
  LET lowerHtml == LowerWords(html)
      lowerUrl == LowerWords(pageUrl)
  IN  IF \E m \in UrlMarkers : Includes(lowerUrl, << m >>)
        THEN RedirectReason
      ELSE IF FirstIndicator(lowerHtml, 1) # NoReason
        THEN FirstIndicator(lowerHtml, 1)
      ELSE IF \E m \in WidgetMarkers : Includes(lowerHtml, << m >>)
        THEN WidgetReason
      ELSE NoReason

\* the pieces the page texts tried are made of
HtmlPieces ==
  { << "please", "confirm", "you", "are", "human" >>,
    << "verify", "you", "are", "a", "Human" >>,
    << "verify", "you", "re", "robot" >>,
    << "Access", "DENIED" >>,
    << "access" >>,
    << "denied" >>,
    << "page", "not", "found" >>,
    << "not", "found", "on", "this", "website" >>,
    << "article" >>,
    << "cf-chl" >>,
    << "bot", "detection" >>,
    << "G-Recaptcha" >>,
    << "cf-turnstile" >>,
    << "lorem" >> }

\* the pieces the URLs tried are made of
UrlPieces ==
  { << "CAPTCHA" >>, << "verify" >>, << "Blocked" >>, << "verification" >>,
    << "article" >> }

\* the concatenations of at most n pieces
RECURSIVE Texts(_, _)
Texts(pieces, n) ==
  IF n = 0 THEN { << >> }
  ELSE Texts(pieces, n - 1)
         \cup { t \o p : t \in Texts(pieces, n - 1), p \in pieces }

VARIABLES
  entry,               \* the entry point this run exercises
  refs,                \* the reference list of the run (ids)
  fate,                \* history: how the latest processing of each id ended
  \* ---- POST /api/process-references-batch
  srvPc,               \* position in POST
  batchSize,           \* body.batchSize
  actualBatchSize,     \* variable actualBatchSize
  i,                   \* loop variable i
  batch,               \* variable batch: the current chunk
  pending,             \* positions of batch whose processSingleReference is in flight
  outcomes,            \* how the settled calls of the chunk ended
  results,             \* variable results
  processed,           \* variable processed
  failed,              \* variable failed
  \* ---- handleSubmit
  cliPc,               \* position in handleSubmit
  loading,             \* state loading
  references,          \* state references: [id, status, error]
  processedCount,      \* state processedCount
  pdfBuffers,          \* keys of pdfBuffersRef
  index,               \* variable index of processWithConcurrency
  workers,             \* the workers of the pool: [pc, currentIndex]
  retryQueue,          \* failedRefs still to replay (ids)
  report,              \* state result
  pageError,           \* state error
  takenBy,             \* history: how many times each index was taken
  replays,             \* history: per id, the status each replay of it started from
  renders,             \* history: per id, the render attempts started for it
  zipJobs,             \* history: the ids the archive step processed again
  \* ---- renderUrlToPdf
  rPc,                 \* position in renderUrlToPdf
  attempt,             \* loop variable attempt
  browser,             \* variable browser: a session id, 0 = undefined
  page,                \* variable page: the session id the page belongs to, 0 = undefined
  sessions,            \* launched browser sessions: [state, attempt, closes]
  lastError,           \* variable lastError
  raised,              \* history: the error that left the try block of the latest failed attempt
  hasBlockedRequests,  \* variable hasBlockedRequests of the current attempt
  pageGone,            \* what page.isClosed() answers
  nav,                 \* outcomes of the navigation tiers tried in this attempt
  uses,                \* history: the operations the latest step issued on sessions
  decisions,           \* history: what followed the latest failed attempt
  blockedAt,           \* history: number of the attempt whose blocker check fired, 0 = none
  \* ---- one reference processed by a route
  route,               \* the route that processes the reference
  sourceUrl,           \* ref.sourceUrl
  urlParts,            \* history: the parts sourceUrl was built from
  remote,              \* what the remote server does
  jobPc,               \* position in the processing of the reference
  timer,               \* downloadPdf: the abort timer is armed
  calls,               \* history: the operations started for the reference
  jobResult,           \* what the route records for the reference
  \* ---- archive assembly
  zipRoute,            \* the caller of createZip
  zipRefs,             \* the references of the request or of the article
  zipPc,               \* position in the route
  zi,                  \* position of the loop over the references
  fileBuffers,         \* variable fileBuffers (create-zip), files (process-article)
  processedReferences, \* variable processedReferences of process-article
  promise,             \* the promise createZip returns: [state, reason]
  raceLost,            \* the timer of create-zip settled the race
  czTimer,             \* the timer of createZip is set
  routeTimer,          \* the timer of create-zip is set
  archiver,            \* the archiver: none, running, ended, failed
  totalSize,           \* variable totalSize
  chunks,              \* chunks.length
  entries,             \* the entries appended to the archive: [name, of]
  zipResponse,         \* what the caller is answered
  zipStarted,          \* history: downloads and renders started by the route
  \* one detectAccessBlocker call
  html,                \* parameter html
  pageUrl,             \* parameter pageUrl
  blockerReason,       \* what the call returned
  \* the Home component, mounted by / or by /wiki/[slug]
  initialUrl,          \* prop initialUrl is a non-empty string
  home,                \* the state: wikiUrl (non-empty or not), loading, result,
                       \* error, references, processedCount
  pdfBuffersRef,       \* pdfBuffersRef.current: [id, run] for the bytes run stored under id
  deps,                \* the dependencies the auto-submit effect last ran with
  runs,                \* the handleSubmit calls made: [pc, by, url, items, inflight, abandoned]
  homeHist             \* history: the run whose list is shown, the results written since
                       \* processedCount was last reset

renderVars ==
  << rPc, attempt, browser, page, sessions, lastError, raised, hasBlockedRequests,
     pageGone, nav, uses, decisions, blockedAt >>

srvVars ==
  << srvPc, batchSize, actualBatchSize, i, batch, pending, outcomes, results,
     processed, failed >>

cliHist == << replays, renders, zipJobs >>

cliVars ==
  << cliPc, loading, references, processedCount, pdfBuffers, index, workers,
     retryQueue, report, pageError, takenBy, cliHist >>

jobVars ==
  << route, sourceUrl, urlParts, remote, jobPc, timer, calls, jobResult >>

zipVars ==
  << zipRoute, zipRefs, zipPc, zi, fileBuffers, processedReferences, promise, raceLost,
     czTimer, routeTimer, archiver, totalSize, chunks, entries, zipResponse, zipStarted >>

detVars == << html, pageUrl, blockerReason >>

homeVars == << initialUrl, home, pdfBuffersRef, deps, runs, homeHist >>

vars ==
  << entry, refs, fate, renderVars, srvVars, cliVars, jobVars, zipVars, detVars, homeVars >>

RenderInit ==
  /\ rPc = "launch"
  /\ attempt = 0
  /\ browser = 0
  /\ page = 0
  /\ sessions = << >>
  /\ lastError = NoError
  /\ raised = NoError
  /\ hasBlockedRequests = FALSE
  /\ pageGone = FALSE
  /\ nav = << >>
  /\ uses = {}
  /\ decisions = {}
  /\ blockedAt = 0

IsOpen(s) == s # 0 /\ sessions[s].state = "open"

Use(s, op) == [session |-> s, by |-> attempt, op |-> op, open |-> IsOpen(s)]

\* a close() that leaves the browser process running
CloseSessionLeak(ss, s) == ss

\* browser.close() on session s
CloseSession(ss, s) ==
  [ss EXCEPT ![s] = [@ EXCEPT !.state = "closed", !.closes = @ + 1]]

\* the first error of the call kept as lastError
RaiseKeepFirst(e) ==
  /\ lastError' = IF lastError = NoError THEN e ELSE lastError
  /\ raised' = e
  /\ rPc' = "catch"

\* an error e leaves the try block: control is at the catch clause
Raise(e) ==
  /\ lastError' = e
  /\ raised' = e
  /\ rPc' = "catch"

\* puppeteer.launch(launchOptions), with chromium.executablePath() before it
Launch ==
  /\ entry = "render" /\ rPc = "launch"
  /\ \/ /\ sessions' = Append(sessions,
                          [state |-> "open", attempt |-> attempt, closes |-> 0])
        /\ browser' = Len(sessions) + 1
        /\ rPc' = "newPage"
        /\ UNCHANGED << lastError, raised >>
     \/ /\ \E e \in BrowserErrors : Raise(e)
        /\ UNCHANGED << sessions, browser >>
  /\ UNCHANGED << entry, refs, zipVars, detVars, homeVars, fate, jobVars, srvVars, cliVars, nav, attempt, page, hasBlockedRequests, pageGone, uses,
                  decisions, blockedAt >>

\* browser.newPage(), setViewport, setUserAgent, setRequestInterception
NewPage ==
  /\ entry = "render" /\ rPc = "newPage"
  /\ \/ /\ page' = browser
        /\ hasBlockedRequests' = FALSE
        /\ pageGone' = FALSE
        /\ uses' = {Use(browser, "page")}
        /\ rPc' = "goto"
        /\ UNCHANGED << lastError, raised >>
     \/ /\ \E e \in BrowserErrors : Raise(e)
        /\ UNCHANGED << page, hasBlockedRequests, pageGone, uses >>
  /\ UNCHANGED << entry, refs, zipVars, detVars, homeVars, fate, jobVars, srvVars, cliVars, nav, attempt, browser, sessions, decisions, blockedAt >>

\* try { page.goto(domcontentloaded, 30s); settle } : an error of any kind
\* (a timeout or not) leads to the catch (navigationError) clause
Goto ==
  /\ entry = "render" /\ rPc = "goto"
  /\ uses' = {Use(page, "goto")}
  /\ \E outcome \in NavOutcomes, blocked \in BOOLEAN, gone \in BOOLEAN :
       /\ nav' = << outcome >>
       /\ hasBlockedRequests' = blocked
       /\ pageGone' = gone
       /\ rPc' = IF outcome = "ok" THEN "check" ELSE "gotoLoad"
  /\ UNCHANGED << entry, refs, zipVars, detVars, homeVars, fate, jobVars, srvVars, cliVars, attempt, browser, page, sessions, lastError, raised, decisions,
                  blockedAt >>

\* catch (navigationError) { try { page.goto(load, 45s) } catch (loadError) {} }
GotoLoad ==
  /\ entry = "render" /\ rPc = "gotoLoad"
  /\ uses' = {Use(page, "goto")}
  /\ \E outcome \in NavOutcomes, blocked \in BOOLEAN, gone \in BOOLEAN :
       /\ nav' = Append(nav, outcome)
       /\ hasBlockedRequests' = (hasBlockedRequests \/ blocked)
       /\ pageGone' = (pageGone \/ gone)
  /\ rPc' = "check"
  /\ UNCHANGED << entry, refs, zipVars, detVars, homeVars, fate, jobVars, srvVars, cliVars, attempt, browser, page, sessions, lastError, raised, decisions,
                  blockedAt >>

\* if (page.isClosed()) throw; page.url(); page.content(); detectAccessBlocker
Content ==
  /\ entry = "render" /\ rPc = "check"
  /\ \/ /\ pageGone
        /\ Raise(ErrPageClosed)
        /\ UNCHANGED << uses, blockedAt >>
     \/ /\ ~pageGone
        /\ uses' = {Use(page, "content")}
        /\ \/ /\ \E e \in BrowserErrors : Raise(e)
              /\ UNCHANGED blockedAt
           \/ /\ Raise(ErrBlocked)
              /\ blockedAt' = attempt + 1
           \/ /\ rPc' = "pdf"
              /\ UNCHANGED << lastError, raised, blockedAt >>
  /\ UNCHANGED << entry, refs, zipVars, detVars, homeVars, fate, jobVars, srvVars, cliVars, nav, attempt, browser, page, sessions,
                  hasBlockedRequests, pageGone, decisions >>

\* page.pdf() and the mapping of its errors
Pdf ==
  /\ entry = "render" /\ rPc = "pdf"
  /\ uses' = {Use(page, "pdf")}
  /\ \/ /\ rPc' = "close"
        /\ UNCHANGED << lastError, raised >>
     \/ \E e \in BrowserErrors : Raise(MapPdfError(e, hasBlockedRequests))
  /\ UNCHANGED << entry, refs, zipVars, detVars, homeVars, fate, jobVars, srvVars, cliVars, nav, attempt, browser, page, sessions, hasBlockedRequests,
                  pageGone, decisions, blockedAt >>

\* await browser.close(); return pdfBuffer
CloseAndReturn ==
  /\ entry = "render" /\ rPc = "close"
  /\ uses' = {Use(browser, "close")}
  /\ sessions' = CloseSession(sessions, browser)
  /\ rPc' = "returned"
  /\ nav' = << >>
  /\ UNCHANGED << entry, refs, zipVars, detVars, homeVars, fate, jobVars, srvVars, cliVars, attempt, browser, page, lastError, raised, hasBlockedRequests,
                  pageGone, decisions, blockedAt >>

\* catch: if (browser) { try { await browser.close() } catch {} }
\* after the close page.isClosed() may answer either way
CatchClose ==
  /\ entry = "render" /\ rPc = "catch"
  /\ IF browser # 0
       THEN /\ uses' = {Use(browser, "close")}
            /\ sessions' = CloseSession(sessions, browser)
            /\ \E gone \in BOOLEAN : pageGone' = (pageGone \/ gone)
       ELSE UNCHANGED << uses, sessions, pageGone >>
  /\ rPc' = IF IsBlockedByClient(lastError) /\ attempt = 0
                 /\ page # 0 /\ ~pageGone'
              THEN "fallback" ELSE "decide"
  /\ nav' = << >>
  /\ UNCHANGED << entry, refs, zipVars, detVars, homeVars, fate, jobVars, srvVars, cliVars, attempt, browser, page, lastError, raised, hasBlockedRequests,
                  decisions, blockedAt >>

\* the ERR_BLOCKED_BY_CLIENT fallback: page.pdf() on the page of this attempt;
\* a capture succeeds only on a session that is still open
Fallback ==
  /\ entry = "render" /\ rPc = "fallback"
  /\ IF IsOpen(page)
       THEN /\ uses' = {Use(page, "pdf"), Use(browser, "close")}
            /\ sessions' = CloseSession(sessions, browser)
            /\ rPc' = "returned"
       ELSE /\ uses' = {Use(page, "pdf")}
            /\ rPc' = "decide"
            /\ UNCHANGED sessions
  /\ UNCHANGED << entry, refs, zipVars, detVars, homeVars, fate, jobVars, srvVars, cliVars, nav, attempt, browser, page, lastError, raised, hasBlockedRequests,
                  pageGone, decisions, blockedAt >>

\* if (isRetryable && attempt < maxRetries) { backoff; continue }
Retry ==
  /\ entry = "render" /\ rPc = "decide"
  /\ ShouldRetry(lastError, attempt)
  /\ decisions' =
       {[error |-> lastError, attempt |-> attempt, retry |-> TRUE]}
  /\ attempt' = attempt + 1
  /\ rPc' = "launch"
  /\ UNCHANGED << entry, refs, zipVars, detVars, homeVars, fate, jobVars, srvVars, cliVars, nav, browser, page, sessions, lastError, raised, hasBlockedRequests,
                  pageGone, uses, blockedAt >>

\* throw lastError (the history keeps the retry that led to this attempt)
Throw ==
  /\ entry = "render" /\ rPc = "decide"
  /\ ~ShouldRetry(lastError, attempt)
  /\ decisions' =
       {d \in decisions : d.retry}
         \cup {[error |-> lastError, attempt |-> attempt, retry |-> FALSE]}
  /\ rPc' = "thrown"
  /\ UNCHANGED << entry, refs, zipVars, detVars, homeVars, fate, jobVars, srvVars, cliVars, nav, attempt, browser, page, sessions, lastError, raised,
                  hasBlockedRequests, pageGone, uses, blockedAt >>

RenderNext ==
  \/ Launch \/ NewPage \/ Goto \/ GotoLoad \/ Content \/ Pdf \/ CloseAndReturn
  \/ CatchClose \/ Fallback \/ Retry \/ Throw

\* ------------------------------------------- POST /api/process-references-batch

NotStarted == {"<not started>"}

SrvInit ==
  /\ srvPc = "idle"
  /\ batchSize \in (IF entry = "server" THEN BatchSizes ELSE {DefaultBatchSize})
  /\ actualBatchSize = 0
  /\ i = 0
  /\ batch = << >>
  /\ pending = {}
  /\ outcomes = << >>
  /\ results = << >>
  /\ processed = 0
  /\ failed = 0

\* the body is parsed and checked, the concurrency computed
SrvReceive ==
  /\ entry = "server" /\ srvPc = "idle"
  /\ IF Len(refs) = 0
       THEN /\ srvPc' = "rejected"
            /\ UNCHANGED actualBatchSize
       ELSE /\ srvPc' = "loop"
            /\ actualBatchSize' = ActualBatchSize(batchSize, Len(refs))
  /\ UNCHANGED << entry, refs, zipVars, detVars, homeVars, fate, jobVars, renderVars, cliVars, batchSize, i, batch, pending,
                  outcomes, results, processed, failed >>

\* i < references.length: slice the chunk and start processSingleReference on
\* each of its elements
SrvChunkStart ==
  /\ entry = "server" /\ srvPc = "loop"
  /\ i < Len(refs)
  /\ batch' = Slice(refs, i, i + actualBatchSize)
  /\ pending' = DOMAIN batch'
  /\ outcomes' = [k \in DOMAIN batch' |-> NotStarted]
  /\ srvPc' = "await"
  /\ UNCHANGED << entry, refs, zipVars, detVars, homeVars, fate, jobVars, renderVars, cliVars, batchSize, actualBatchSize, i,
                  results, processed, failed >>

\* the download or render of one element of the chunk ends
SrvSettle ==
  /\ entry = "server" /\ srvPc = "await"
  /\ \E k \in pending, o \in SrvOutcomesOf(Len(refs)) :
       /\ pending' = pending \ {k}
       /\ outcomes' = [outcomes EXCEPT ![k] = o]
       /\ fate' = [fate EXCEPT ![batch[k]] = o]
  /\ UNCHANGED << entry, refs, zipVars, detVars, homeVars, jobVars, renderVars, cliVars, srvPc, batchSize, actualBatchSize,
                  i, batch, results, processed, failed >>

\* Promise.all resolves: push the results, update the counters, i += actualBatchSize
SrvChunkJoin ==
  /\ entry = "server" /\ srvPc = "await"
  /\ pending = {}
  /\ LET batchResults == BatchResults(batch, outcomes) IN
       /\ results' = results \o batchResults
       /\ processed' = processed + CountStatus(batchResults, "downloaded")
       /\ failed' = failed + CountStatus(batchResults, "failed")
  /\ i' = CapIndex(i + actualBatchSize)
  /\ srvPc' = "loop"
  /\ UNCHANGED << entry, refs, zipVars, detVars, homeVars, fate, jobVars, renderVars, cliVars, batchSize, actualBatchSize,
                  batch, pending, outcomes >>

\* the loop ends: NextResponse.json({results, processed, failed})
SrvRespond ==
  /\ entry = "server" /\ srvPc = "loop"
  /\ i >= Len(refs)
  /\ srvPc' = "responded"
  /\ UNCHANGED << entry, refs, zipVars, detVars, homeVars, fate, jobVars, renderVars, cliVars, batchSize, actualBatchSize, i,
                  batch, pending, outcomes, results, processed, failed >>

SrvNext ==
  \/ SrvReceive \/ SrvChunkStart \/ SrvSettle \/ SrvChunkJoin \/ SrvRespond

\* ------------------------------------------------------- handleSubmit (client)

NoReport == [total |-> 0 - 1]

\* setError(null)
NoMessage == ""

Unused == [pc |-> "unused", currentIndex |-> 0 - 1]

CliInit ==
  /\ cliPc = "idle"
  /\ loading = FALSE
  /\ references = << >>
  /\ processedCount = 0
  /\ pdfBuffers = {}
  /\ index = 0
  /\ workers = [w \in 1..Max(ClientCeiling, Len(refs)) |-> Unused]
  /\ retryQueue = << >>
  /\ report = NoReport
  /\ pageError = NoMessage
  /\ takenBy = [k \in 0..(Len(refs) - 1) |-> 0]
  /\ replays = [id \in Ids(refs) |-> << >>]
  /\ renders = [id \in Ids(refs) |-> 0]
  /\ zipJobs = {}

Inflight == {w \in DOMAIN workers : workers[w].pc = "await"}

\* the form is submitted: the state is reset and the extraction requested
CliSubmit ==
  /\ entry = "client" /\ cliPc = "idle"
  /\ loading' = TRUE
  /\ report' = NoReport
  /\ references' = << >>
  /\ processedCount' = 0
  /\ pdfBuffers' = {}
  /\ pageError' = NoMessage
  /\ cliPc' = "extract"
  /\ UNCHANGED << entry, refs, zipVars, detVars, homeVars, fate, jobVars, renderVars, srvVars, index, workers,
                  retryQueue, takenBy, cliHist >>

\* the extraction request failed: setError, setLoading(false), return
CliExtractFailed ==
  /\ entry = "client" /\ cliPc = "extract"
  /\ loading' = FALSE
  /\ pageError' = "Failed to extract references"
  /\ cliPc' = "done"
  /\ UNCHANGED << entry, refs, zipVars, detVars, homeVars, fate, jobVars, renderVars, srvVars, references,
                  processedCount, pdfBuffers, index, workers, retryQueue, report,
                  takenBy, cliHist >>

\* the extraction answered with the list refs: an empty list is reported at
\* once, otherwise the references are set pending and the pool is started
CliExtracted ==
  /\ entry = "client" /\ cliPc = "extract"
  /\ IF Len(refs) = 0
       THEN /\ report' = [total |-> 0, successCount |-> 0, failedCount |-> 0,
                          zip |-> FALSE, references |-> << >>]
            /\ loading' = FALSE
            /\ cliPc' = "done"
            /\ UNCHANGED << references, index, workers, takenBy >>
       ELSE LET initialReferences ==
                  [k \in DOMAIN refs |->
                     [id |-> refs[k], status |-> "pending", error |-> NoError,
                      pdfFilename |-> FALSE]]
                concurrency == ClientConcurrency(Len(refs))
                st == StartWorkers(
                        [index |-> 0, workers |-> workers,
                         references |-> initialReferences, takenBy |-> takenBy],
                        WorkerCount(concurrency, Len(refs)), refs)
            IN  /\ index' = st.index
                /\ workers' = st.workers
                /\ references' = st.references
                /\ takenBy' = st.takenBy
                /\ cliPc' = "pool"
                /\ UNCHANGED << report, loading >>
  /\ UNCHANGED << entry, refs, zipVars, detVars, homeVars, fate, jobVars, renderVars, srvVars, pageError, processedCount,
                  pdfBuffers, retryQueue, cliHist >>

\* the processReference call a worker awaits ends
WorkerSettle ==
  /\ entry = "client" /\ cliPc = "pool"
  /\ \E w \in Inflight, o \in ClientOutcomesOf(Len(refs)) :
       LET id == refs[workers[w].currentIndex + 1] IN
       /\ \E n \in RenderAttemptsOf(Len(refs), o) :
            renders' = [renders EXCEPT ![id] = @ + n]
       /\ references' = UpdateReference(references, id, o)
       /\ pdfBuffers' = IF o = NoError THEN pdfBuffers \cup {id} ELSE pdfBuffers
       /\ fate' = [fate EXCEPT ![id] = o]
       /\ workers' = [workers EXCEPT ![w] = [pc |-> "take", currentIndex |-> 0 - 1]]
  /\ processedCount' = processedCount + 1
  /\ UNCHANGED << entry, refs, zipVars, detVars, homeVars, jobVars, renderVars, srvVars, pageError, cliPc, loading, index,
                  retryQueue, report, takenBy, replays, zipJobs >>

\* a worker resumes after its await and takes the next index
WorkerTake ==
  /\ entry = "client" /\ cliPc = "pool"
  /\ \E w \in DOMAIN workers :
       /\ workers[w].pc = "take"
       /\ LET st == Take([index |-> index, workers |-> workers,
                          references |-> references, takenBy |-> takenBy],
                         w, refs)
          IN  /\ index' = st.index
              /\ workers' = st.workers
              /\ references' = st.references
              /\ takenBy' = st.takenBy
  /\ UNCHANGED << entry, refs, zipVars, detVars, homeVars, fate, jobVars, renderVars, srvVars, pageError, cliPc, loading,
                  processedCount, pdfBuffers, retryQueue, report, cliHist >>

\* a pool that never reports its end
AllWorkersDoneNever(ws) == FALSE

\* Promise.all(workers) resolves once every worker has returned
AllWorkersDone(ws) == \A w \in DOMAIN ws : ws[w].pc \in {"done", "unused"}

\* Promise.all(workers) resolves; the failed references to replay are picked
PoolJoin ==
  /\ entry = "client" /\ cliPc = "pool"
  /\ AllWorkersDone(workers)
  /\ LET failedRefs == FailedRefs(references) IN
       /\ retryQueue' = [k \in DOMAIN failedRefs |-> failedRefs[k].id]
       /\ cliPc' = IF Len(failedRefs) > 0 THEN "retry" ELSE "final"
  /\ UNCHANGED << entry, refs, zipVars, detVars, homeVars, fate, jobVars, renderVars, srvVars, pageError, loading, references,
                  processedCount, pdfBuffers, index, workers, report, takenBy, cliHist >>

\* for (const ref of failedRefs) processReference(ref): the call starts
RetryStart ==
  /\ entry = "client" /\ cliPc = "retry"
  /\ LET ref == CHOOSE r \in Range(references) : r.id = Head(retryQueue) IN
       replays' = [replays EXCEPT ![ref.id] = Append(@, ref.status)]
  /\ references' = MarkProcessing(references, Head(retryQueue))
  /\ cliPc' = "retryAwait"
  /\ UNCHANGED << entry, refs, zipVars, detVars, homeVars, fate, jobVars, renderVars, srvVars, pageError, loading,
                  processedCount, pdfBuffers, index, workers, retryQueue, report,
                  takenBy, renders, zipJobs >>

\* the replayed processReference call ends; after the 300 ms delay the loop
\* goes on
RetrySettle ==
  /\ entry = "client" /\ cliPc = "retryAwait"
  /\ \E o \in ClientOutcomesOf(Len(refs)) :
       LET id == Head(retryQueue) IN
       /\ \E n \in RenderAttemptsOf(Len(refs), o) :
            renders' = [renders EXCEPT ![id] = @ + n]
       /\ references' = UpdateReference(references, id, o)
       /\ pdfBuffers' = IF o = NoError THEN pdfBuffers \cup {id} ELSE pdfBuffers
       /\ fate' = [fate EXCEPT ![id] = o]
  /\ processedCount' = processedCount + 1
  /\ retryQueue' = Tail(retryQueue)
  /\ cliPc' = IF Len(retryQueue) > 1 THEN "retry" ELSE "final"
  /\ UNCHANGED << entry, refs, zipVars, detVars, homeVars, jobVars, renderVars, srvVars, pageError, loading, index, workers,
                  report, takenBy, replays, zipJobs >>

\* createZipFromBuffers(finalRefs): the downloaded references are posted to
\* /api/create-zip, which downloads or renders each of them again; the call
\* ends with the archive, with null or with an error; setResult(...);
\* finally setLoading(false)
CliReport ==
  /\ entry = "client" /\ cliPc = "final"
  /\ \E zipOutcome \in ZipOutcomes :
       LET downloadedRefs == DownloadedRefs(references) IN
       /\ zipJobs' = IF downloadedRefs # << >> /\ zipOutcome # "network error"
                       THEN {downloadedRefs[k].id : k \in DOMAIN downloadedRefs}
                       ELSE {}
       /\ report' = FinalResult(references, Len(refs),
                                zipOutcome = "archive" /\ downloadedRefs # << >>)
  /\ loading' = FALSE
  /\ cliPc' = "done"
  /\ UNCHANGED << entry, refs, zipVars, detVars, homeVars, fate, jobVars, renderVars, srvVars, pageError, references,
                  processedCount, pdfBuffers, index, workers, retryQueue, takenBy, replays, renders >>

\* the Download ZIP button of a result with downloads: the references that
\* are downloaded are posted to /api/create-zip again; the archive is saved
\* or an error is shown; result and references are not written
handleDownloadZip ==
  /\ entry = "client" /\ cliPc = "done"
  /\ report # NoReport
  /\ report.successCount # 0
  /\ LET downloadedRefs ==
           SelectSeq(references,
                     LAMBDA r : r.status = "downloaded" /\ r.id \in pdfBuffers)
     IN  IF downloadedRefs = << >>
           THEN /\ pageError' = "No downloaded files available"
                /\ UNCHANGED zipJobs
           ELSE \E zipOutcome \in ZipOutcomes :
                  /\ zipJobs' = IF zipOutcome # "network error"
                                  THEN {r.id : r \in Range(DownloadedRefs(references))}
                                  ELSE {}
                  /\ pageError' = IF zipOutcome = "archive" THEN NoMessage
                                    ELSE "Failed to download ZIP"
  /\ UNCHANGED << entry, refs, zipVars, detVars, homeVars, fate, jobVars, renderVars, srvVars, cliPc, loading,
                  references, processedCount, pdfBuffers, index, workers, retryQueue,
                  report, takenBy, replays, renders >>

CliNext ==
  \/ CliSubmit \/ CliExtractFailed \/ CliExtracted \/ WorkerSettle \/ WorkerTake
  \/ PoolJoin \/ RetryStart \/ RetrySettle \/ CliReport \/ handleDownloadZip

\* ------------------------------------------- one reference processed by a route

NoResult == [status |-> "none"]

NoParts == [origin |-> << >>, path |-> << >>, query |-> << >>, fragment |-> << >>]

JobInit ==
  /\ route \in (IF entry = "job" THEN Routes ELSE {"process-reference"})
  /\ urlParts \in (IF entry = "job" THEN UrlParts ELSE {NoParts})
  /\ sourceUrl = UrlString(urlParts)
  /\ remote \in (IF entry = "job" THEN RemoteBehaviours ELSE {"answers"})
  /\ jobPc = "start"
  /\ timer = FALSE
  /\ calls = {}
  /\ jobResult = NoResult

\* the job ends with outcome: the route records its result
JobEnds(outcome) ==
  /\ jobResult' = RouteResult(route, 1, outcome)
  /\ jobPc' = "done"

\* the route checks the fields of the reference and classifies the URL:
\* downloadPdf arms its timer and issues the fetch, or renderUrlToPdf is entered
JobDispatch ==
  /\ entry = "job" /\ jobPc = "start"
  /\ IF sourceUrl = << >> /\ route \in RoutesCheckingFields
       THEN /\ jobPc' = "skipped"
            /\ UNCHANGED << timer, calls >>
       ELSE IF Dispatch(sourceUrl) = "downloadPdf"
         THEN /\ calls' = {"downloadPdf", "fetch"}
              /\ timer' = TRUE
              /\ jobPc' = "fetch"
         ELSE /\ calls' = {"renderUrlToPdf"}
              /\ jobPc' = "render"
              /\ UNCHANGED timer
  /\ UNCHANGED << entry, refs, zipVars, detVars, homeVars, fate, renderVars, srvVars, cliVars, route, sourceUrl,
                  urlParts, remote, jobResult >>

\* renderUrlToPdf: puppeteer.launch() is the first thing an attempt does with
\* the browser, whatever the URL; the call returns the document or throws
JobRender ==
  /\ entry = "job" /\ jobPc = "render"
  /\ calls' = calls \cup {"puppeteer.launch"}
  /\ \E outcome \in {NoError} \cup RenderThrows : JobEnds(outcome)
  /\ UNCHANGED << entry, refs, zipVars, detVars, homeVars, fate, renderVars, srvVars, cliVars, route, sourceUrl,
                  urlParts, remote, timer >>

\* fetch resolves with the response headers: clearTimeout(timeoutId); a
\* status that is not ok is thrown
JobFetchResolves ==
  /\ entry = "job" /\ jobPc = "fetch"
  /\ remote \in {"answers", "empty", "error-status", "stalls", "breaks"}
  /\ timer' = FALSE
  /\ IF remote = "error-status"
       THEN JobEnds(ErrHttpStatusWrapped)
       ELSE /\ jobPc' = "body"
            /\ UNCHANGED jobResult
  /\ UNCHANGED << entry, refs, zipVars, detVars, homeVars, fate, renderVars, srvVars, cliVars, route, sourceUrl,
                  urlParts, remote, calls >>

\* fetch rejects with TypeError "fetch failed"
JobFetchRejects ==
  /\ entry = "job" /\ jobPc = "fetch"
  /\ remote = "refuses"
  /\ timer' = FALSE
  /\ JobEnds(ErrDownloadNetwork)
  /\ UNCHANGED << entry, refs, zipVars, detVars, homeVars, fate, renderVars, srvVars, cliVars, route, sourceUrl,
                  urlParts, remote, calls >>

\* the timer fires: controller.abort() rejects the pending fetch with AbortError
JobTimerFires ==
  /\ entry = "job" /\ jobPc \in {"fetch", "body"}
  /\ timer
  /\ timer' = FALSE
  /\ JobEnds(ErrDownloadTimeout)
  /\ UNCHANGED << entry, refs, zipVars, detVars, homeVars, fate, renderVars, srvVars, cliVars, route, sourceUrl,
                  urlParts, remote, calls >>

\* response.arrayBuffer() resolves with the body, or rejects when the
\* connection breaks
JobBodyEnds ==
  /\ entry = "job" /\ jobPc = "body"
  /\ remote \in {"answers", "empty", "breaks"}
  /\ JobEnds(IF remote = "breaks" THEN ErrDownloadBroken ELSE NoError)
  /\ UNCHANGED << entry, refs, zipVars, detVars, homeVars, fate, renderVars, srvVars, cliVars, route, sourceUrl,
                  urlParts, remote, timer, calls >>

JobNext ==
  \/ JobDispatch \/ JobRender \/ JobFetchResolves \/ JobFetchRejects
  \/ JobTimerFires \/ JobBodyEnds

\* ------------------------------------------------------------------ runs

\* ------------------------------------------------------- archive assembly: steps

ZipInit ==
  /\ IF entry = "zip"
       THEN /\ zipRoute \in {"create-zip", "process-article", "createZip"}
            /\ zipRefs \in
                 (CASE zipRoute = "create-zip" ->
                         ZipRequests(MaxZipRefs)
                           \cup {ZipLongList(MaxZipFiles), ZipLongList(MaxZipFiles + 1)}
                    [] zipRoute = "process-article" ->
                         { s \in ZipRequests(MaxZipRefs) : \A k \in DOMAIN s : s[k].id > 0 }
                    [] OTHER -> {<< >>})
            /\ fileBuffers \in
                 (IF zipRoute = "createZip" THEN DirectFileLists(MaxZipRefs) ELSE {<< >>})
       ELSE /\ zipRoute = "none"
            /\ zipRefs = << >>
            /\ fileBuffers = << >>
  /\ zipPc = "idle"
  /\ zi = 0
  /\ processedReferences = << >>
  /\ promise = NoPromise
  /\ raceLost = FALSE
  /\ czTimer = FALSE
  /\ routeTimer = FALSE
  /\ archiver = "none"
  /\ totalSize = 0
  /\ chunks = 0
  /\ entries = << >>
  /\ zipResponse = NoResponse
  /\ zipStarted = 0

ZipOthers == << fate, refs, renderVars, srvVars, cliVars, jobVars, detVars, homeVars >>

\* the checks a route makes on the list before its loop
ZipReceive ==
  /\ entry = "zip"
  /\ zipPc = "idle"
  /\ zipRoute \in {"create-zip", "process-article"}
  /\ IF zipRoute = "create-zip" /\ Len(zipRefs) = 0
       THEN /\ zipPc' = "done"
            /\ zipResponse' = ZipResponse(400, FALSE, "No references provided", << >>)
            /\ zi' = zi
     ELSE IF zipRoute = "create-zip" /\ ExceedsCeiling(Len(zipRefs))
       THEN /\ zipPc' = "done"
            /\ zipResponse' =
                 ZipResponse(400, FALSE, "Maximum 250 files allowed per ZIP", << >>)
            /\ zi' = zi
     ELSE /\ zipPc' = "loop"
          /\ zi' = 1
          /\ zipResponse' = zipResponse
  /\ UNCHANGED << entry, ZipOthers, zipRoute, zipRefs, fileBuffers, processedReferences,
                  promise, raceLost, czTimer, routeTimer, archiver, totalSize, chunks,
                  entries, zipStarted >>

\* create-zip: a reference without id or title is passed over
ZipSkip ==
  /\ entry = "zip"
  /\ zipPc = "loop"
  /\ zi <= Len(zipRefs)
  /\ zipRoute = "create-zip"
  /\ InvalidReference(zipRefs[zi])
  /\ zi' = zi + 1
  /\ UNCHANGED << entry, ZipOthers, zipRoute, zipRefs, zipPc, fileBuffers,
                  processedReferences, promise, raceLost, czTimer, routeTimer, archiver,
                  totalSize, chunks, entries, zipResponse, zipStarted >>

\* one turn of the loop: the reference is downloaded or rendered; create-zip
\* logs a failure, process-article records it
ZipJob ==
  /\ entry = "zip"
  /\ zipPc = "loop"
  /\ zi <= Len(zipRefs)
  /\ ~(zipRoute = "create-zip" /\ InvalidReference(zipRefs[zi]))
  /\ \E outcome \in ZipJobOutcomes(Len(zipRefs)) :
       LET ref == zipRefs[zi]
           pdfFilename == PdfFilename(ref)
       IN  /\ fileBuffers' =
                IF outcome = NoError
                  THEN Append(fileBuffers,
                              [filename |-> pdfFilename, content |-> TRUE, of |-> ref.id])
                  ELSE fileBuffers
           /\ processedReferences' =
                IF zipRoute # "process-article" THEN processedReferences
                ELSE IF outcome = NoError
                  THEN Append(processedReferences,
                              [id |-> ref.id, status |-> "downloaded", error |-> NoError,
                               pdfFilename |-> pdfFilename])
                  ELSE Append(processedReferences,
                              [id |-> ref.id, status |-> "failed", error |-> outcome,
                               pdfFilename |-> << >>])
  /\ zipStarted' = zipStarted + 1
  /\ zi' = zi + 1
  /\ UNCHANGED << entry, ZipOthers, zipRoute, zipRefs, zipPc, promise, raceLost, czTimer,
                  routeTimer, archiver, totalSize, chunks, entries, zipResponse >>

\* after the loop with nothing to pack: create-zip answers 400, process-article
\* answers its report without an archive
ZipNoFiles ==
  /\ entry = "zip"
  /\ zipPc = "loop"
  /\ zi > Len(zipRefs)
  /\ fileBuffers = << >>
  /\ zipPc' = "done"
  /\ zipResponse' =
       IF zipRoute = "create-zip"
         THEN ZipResponse(400, FALSE, "No valid files to include in ZIP", << >>)
         ELSE ZipResponse(200, FALSE, "", processedReferences)
  /\ UNCHANGED << entry, ZipOthers, zipRoute, zipRefs, zi, fileBuffers,
                  processedReferences, promise, raceLost, czTimer, routeTimer, archiver,
                  totalSize, chunks, entries, zipStarted >>

\* createZip is called: its timer is set, the files are appended and the
\* archive is finalized; create-zip races the call against its own timer
CreateZipCall ==
  /\ entry = "zip"
  /\ \/ zipPc = "loop" /\ zi > Len(zipRefs) /\ fileBuffers # << >>
     \/ zipPc = "idle" /\ zipRoute = "createZip"
  /\ zipPc' = "assembling"
  /\ promise' = Pending
  /\ czTimer' = TRUE
  /\ routeTimer' = (zipRoute = "create-zip")
  /\ entries' = Appended(fileBuffers)
  /\ archiver' = "running"
  /\ UNCHANGED << entry, ZipOthers, zipRoute, zipRefs, zi, fileBuffers,
                  processedReferences, raceLost, totalSize, chunks, zipResponse,
                  zipStarted >>

\* archive.on('data')
CzData ==
  /\ entry = "zip"
  /\ archiver = "running"
  /\ chunks < MaxChunks
  /\ \E size \in ChunkSizes :
       /\ totalSize' = totalSize + size
       /\ IF totalSize' > maxSize
            THEN /\ czTimer' = FALSE
                 /\ promise' = Settle(promise, Rejected(CzErrSize))
            ELSE UNCHANGED << czTimer, promise >>
  /\ chunks' = chunks + 1
  /\ UNCHANGED << entry, ZipOthers, zipRoute, zipRefs, zipPc, zi, fileBuffers,
                  processedReferences, raceLost, routeTimer, archiver, entries,
                  zipResponse, zipStarted >>

\* archive.on('end')
CzEnd ==
  /\ entry = "zip"
  /\ archiver = "running"
  /\ archiver' = "ended"
  /\ czTimer' = FALSE
  /\ promise' = Settle(promise, Resolved)
  /\ UNCHANGED << entry, ZipOthers, zipRoute, zipRefs, zipPc, zi, fileBuffers,
                  processedReferences, raceLost, routeTimer, totalSize, chunks, entries,
                  zipResponse, zipStarted >>

\* archive.on('error')
CzError ==
  /\ entry = "zip"
  /\ archiver = "running"
  /\ \E err \in ArchiverErrors :
       promise' = Settle(promise, Rejected(err))
  /\ archiver' = "failed"
  /\ czTimer' = FALSE
  /\ UNCHANGED << entry, ZipOthers, zipRoute, zipRefs, zipPc, zi, fileBuffers,
                  processedReferences, raceLost, routeTimer, totalSize, chunks, entries,
                  zipResponse, zipStarted >>

\* the timer of createZip fires
CzTimeout ==
  /\ entry = "zip"
  /\ czTimer
  /\ czTimer' = FALSE
  /\ promise' = Settle(promise, Rejected(CzErrTimeout))
  /\ UNCHANGED << entry, ZipOthers, zipRoute, zipRefs, zipPc, zi, fileBuffers,
                  processedReferences, raceLost, routeTimer, archiver, totalSize, chunks,
                  entries, zipResponse, zipStarted >>

\* the timer create-zip races against createZip fires first
RaceTimeout ==
  /\ entry = "zip"
  /\ routeTimer
  /\ zipPc = "assembling"
  /\ promise.state = "pending"
  /\ routeTimer' = FALSE
  /\ raceLost' = TRUE
  /\ UNCHANGED << entry, ZipOthers, zipRoute, zipRefs, zipPc, zi, fileBuffers,
                  processedReferences, promise, czTimer, archiver, totalSize, chunks,
                  entries, zipResponse, zipStarted >>

\* what the caller of createZip awaits
Awaited == IF raceLost THEN Rejected(RaceErrTimeout) ELSE promise

\* the awaited promise has settled: the caller goes on
ZipRespond ==
  /\ entry = "zip"
  /\ zipPc = "assembling"
  /\ Awaited.state \in {"resolved", "rejected"}
  /\ zipPc' = "done"
  /\ zipResponse' =
       CASE zipRoute = "create-zip" ->
              IF Awaited.state = "resolved"
                THEN ZipResponse(200, TRUE, "", << >>)
                ELSE ZipResponse(CreateZipStatus(Awaited.reason), FALSE,
                                 CreateZipError(Awaited.reason), << >>)
         [] zipRoute = "process-article" ->
              ZipResponse(200, Awaited.state = "resolved", "", processedReferences)
         [] OTHER ->
              ZipResponse(0, Awaited.state = "resolved", "", << >>)
  /\ UNCHANGED << entry, ZipOthers, zipRoute, zipRefs, zi, fileBuffers,
                  processedReferences, promise, raceLost, czTimer, routeTimer, archiver,
                  totalSize, chunks, entries, zipStarted >>

ZipNext ==
  \/ ZipReceive
  \/ ZipSkip
  \/ ZipJob
  \/ ZipNoFiles
  \/ CreateZipCall
  \/ CzData
  \/ CzEnd
  \/ CzError
  \/ CzTimeout
  \/ RaceTimeout
  \/ ZipRespond

\* ------------------------------------------------------- detectAccessBlocker

\* no call made yet
NotCalled == "not called"

DetInit ==
  /\ IF entry = "detect"
       THEN /\ html \in Texts(HtmlPieces, MaxHtmlPieces)
            /\ pageUrl \in Texts(UrlPieces, MaxUrlPieces)
       ELSE /\ html = << >>
            /\ pageUrl = << >>
  /\ blockerReason = NotCalled

\* const blockerReason = detectAccessBlocker(pageContent, pageUrlAfterLoad)
Detect ==
  /\ entry = "detect"
  /\ blockerReason = NotCalled
  /\ blockerReason' = detectAccessBlocker(html, pageUrl)
  /\ UNCHANGED << entry, refs, fate, renderVars, srvVars, cliVars, jobVars, zipVars,
                  homeVars, html, pageUrl >>

\* ------------------------------------------------------- the Home component

\* handleSubmit calls followed, references of an article
MaxRuns == 2
MaxHomeRefs == 2

\* the effect has not run: the component is not mounted yet
NotMounted == << "not mounted" >>

\* [initialUrl, loading, references.length, result]
CurrentDeps == << initialUrl, home.loading, Len(home.references), home.result >>

\* how a request to /api/process-reference ends in these runs: an answer
\* with status downloaded or failed (no failure that is replayed)
HomeOutcomes == {NoError, CliErrNotFound}

HomeInit ==
  /\ initialUrl \in (IF entry = "home" THEN BOOLEAN ELSE {FALSE})
  /\ home = [wikiUrl |-> initialUrl, loading |-> FALSE, result |-> NoReport,
             error |-> NoMessage, references |-> << >>, processedCount |-> 0]
  /\ pdfBuffersRef = {}
  /\ deps = NotMounted
  /\ runs = << >>
  /\ homeHist = [list |-> 0, writes |-> {}]

HomeOthers ==
  << entry, refs, fate, renderVars, srvVars, cliVars, jobVars, zipVars, detVars >>

\* the effects of the last render have run
Flushed == deps = CurrentDeps

\* handleSubmit up to its first await: the state is reset and the extraction
\* requested with the wikiUrl of the render
SubmitStart(by) ==
  /\ Len(runs) < MaxRuns
  /\ home' = [home EXCEPT !.loading = TRUE, !.error = NoMessage, !.result = NoReport,
                          !.references = << >>, !.processedCount = 0]
  /\ pdfBuffersRef' = {}
  /\ runs' = Append(runs, [pc |-> "extract", by |-> by, url |-> home.wikiUrl,
                           items |-> 0, inflight |-> {}, abandoned |-> FALSE])
  /\ homeHist' = [list |-> 0, writes |-> {}]

\* useEffect(() => { if (initialUrl && !loading && references.length === 0
\* && !result) form.requestSubmit() }, [initialUrl, loading, references.length, result])
AutoSubmit ==
  /\ entry = "home"
  /\ ~Flushed
  /\ deps' = CurrentDeps
  /\ IF initialUrl /\ ~home.loading /\ Len(home.references) = 0 /\ home.result = NoReport
       THEN SubmitStart("effect")
       ELSE UNCHANGED << home, pdfBuffersRef, runs, homeHist >>
  /\ UNCHANGED << HomeOthers, initialUrl >>

\* onChange of the input, which is disabled while loading
TypeUrl ==
  /\ entry = "home" /\ Flushed
  /\ ~home.loading /\ ~home.wikiUrl
  /\ home' = [home EXCEPT !.wikiUrl = TRUE]
  /\ UNCHANGED << HomeOthers, initialUrl, pdfBuffersRef, deps, runs, homeHist >>

\* the submit button, disabled while loading or without a URL
UserSubmit ==
  /\ entry = "home" /\ Flushed
  /\ ~home.loading /\ home.wikiUrl
  /\ SubmitStart("user")
  /\ UNCHANGED << HomeOthers, initialUrl, deps >>

\* the extraction request of run r failed or was answered with an error (the
\* only answers to an empty wikiUrl): setError, setLoading(false), return
HomeExtractFailed ==
  /\ entry = "home" /\ Flushed
  /\ \E r \in DOMAIN runs :
       /\ runs[r].pc = "extract"
       /\ home' = [home EXCEPT !.error = "Failed to extract references",
                               !.loading = FALSE]
       /\ runs' = [runs EXCEPT ![r].pc = "ended"]
  /\ UNCHANGED << HomeOthers, initialUrl, pdfBuffersRef, deps, homeHist >>

\* the extraction of run r answered with n references: none is reported at
\* once; otherwise the list is set pending and the pool started, which marks
\* the first min(4, n) references processing and requests them
HomeExtracted ==
  /\ entry = "home" /\ Flushed
  /\ \E r \in DOMAIN runs, n \in 0..MaxHomeRefs :
       /\ runs[r].pc = "extract"
       /\ runs[r].url
       /\ IF n = 0
            THEN /\ home' = [home EXCEPT !.result = FinalResult(<< >>, 0, FALSE),
                                         !.loading = FALSE]
                 /\ runs' = [runs EXCEPT ![r].pc = "ended"]
                 /\ UNCHANGED homeHist
            ELSE LET items == Ascending(n)
                     initialReferences ==
                       [k \in DOMAIN items |->
                          [id |-> items[k], status |-> "pending", error |-> NoError,
                           pdfFilename |-> FALSE]]
                     st == StartWorkers(
                             [index |-> 0,
                              workers |-> [w \in 1..ClientCeiling |-> Unused],
                              references |-> initialReferences,
                              takenBy |-> [k \in 0..(n - 1) |-> 0]],
                             WorkerCount(ClientConcurrency(n), n), items)
                 IN  /\ home' = [home EXCEPT !.references = st.references]
                     /\ runs' = [runs EXCEPT ![r].pc = "pool", ![r].items = n,
                                             ![r].inflight = 1..n]
                     /\ homeHist' = [homeHist EXCEPT !.list = r]
  /\ UNCHANGED << HomeOthers, initialUrl, pdfBuffersRef, deps >>

\* a processReference call of run r ends: the bytes are stored under the id,
\* the reference of that id in the list shown is updated, processedCount is
\* advanced; the worker finds no further item, and the last one to end lets
\* handleSubmit go on (no failure here is replayed)
HomeSettle ==
  /\ entry = "home" /\ Flushed
  /\ \E r \in DOMAIN runs :
       /\ runs[r].pc = "pool"
       /\ \E id \in runs[r].inflight, o \in HomeOutcomes :
            /\ pdfBuffersRef' =
                 IF o = NoError
                   THEN {b \in pdfBuffersRef : b.id # id} \cup {[id |-> id, run |-> r]}
                   ELSE pdfBuffersRef
            /\ home' = [home EXCEPT
                          !.references = UpdateReference(@, id, o),
                          !.processedCount = @ + 1]
            /\ runs' = [runs EXCEPT
                          ![r].inflight = @ \ {id},
                          ![r].pc = IF runs[r].inflight = {id} THEN "final" ELSE "pool"]
            /\ homeHist' =
                 [homeHist EXCEPT
                    !.writes = @ \cup
                      {[id |-> id, run |-> r,
                        hit |-> \E k \in DOMAIN home.references :
                                  home.references[k].id = id]}]
  /\ UNCHANGED << HomeOthers, initialUrl, deps >>

\* the end of handleSubmit of run r: the list shown is read, the archive
\* requested, the result set and loading cleared
HomeReport ==
  /\ entry = "home" /\ Flushed
  /\ \E r \in DOMAIN runs, zipOutcome \in {"archive", "route error"} :
       /\ runs[r].pc = "final"
       /\ LET finalRefs == home.references IN
            home' = [home EXCEPT
                       !.result = FinalResult(finalRefs, runs[r].items,
                                              zipOutcome = "archive"
                                                /\ DownloadedRefs(finalRefs) # << >>),
                       !.error = IF CountStatus(finalRefs, "pending") > 0
                                   THEN "Warning" ELSE @,
                       !.loading = FALSE]
       /\ runs' = [runs EXCEPT ![r].pc = "ended"]
  /\ UNCHANGED << HomeOthers, initialUrl, pdfBuffersRef, deps, homeHist >>

\* the Start over button, shown with a list or a result: every state is
\* reset; the calls in flight are left alone
resetToHome ==
  /\ entry = "home" /\ Flushed
  /\ Len(home.references) > 0 \/ home.result # NoReport
  /\ home' = [wikiUrl |-> FALSE, loading |-> FALSE, result |-> NoReport,
              error |-> NoMessage, references |-> << >>, processedCount |-> 0]
  /\ pdfBuffersRef' = {}
  /\ runs' = [r \in DOMAIN runs |->
               IF runs[r].pc # "ended" THEN [runs[r] EXCEPT !.abandoned = TRUE]
               ELSE runs[r]]
  /\ homeHist' = [list |-> 0, writes |-> {}]
  /\ UNCHANGED << HomeOthers, initialUrl, deps >>

HomeNext ==
  \/ AutoSubmit \/ TypeUrl \/ UserSubmit \/ HomeExtractFailed \/ HomeExtracted
  \/ HomeSettle \/ HomeReport \/ resetToHome

RunInit(entryPoints, srvLists, cliLists) ==
  /\ entry \in entryPoints
  /\ refs \in (IF entry = "server" THEN srvLists
               ELSE IF entry = "client" THEN cliLists ELSE {<< >>})
  /\ fate = [id \in Ids(refs) |-> NotStarted]
  /\ RenderInit
  /\ SrvInit
  /\ CliInit
  /\ JobInit
  /\ ZipInit
  /\ DetInit
  /\ HomeInit

Init ==
  RunInit({"render", "server", "client", "job", "zip", "detect", "home"}, RefLists(MaxSrvRefs),
          ExtractedLists(MaxRefs))

Next == RenderNext \/ SrvNext \/ CliNext \/ JobNext \/ ZipNext \/ Detect \/ HomeNext

Spec == Init /\ [][Next]_vars

\* one renderUrlToPdf call
RenderSpec == RunInit({"render"}, {}, {}) /\ [][RenderNext]_vars

\* one batch run: a POST /api/process-references-batch or a handleSubmit
BatchSpec ==
  /\ RunInit({"server", "client"}, RefLists(MaxSrvRefs), ExtractedLists(MaxRefs))
  /\ [][SrvNext \/ CliNext]_vars

\* one archive assembled
ZipSpec == RunInit({"zip"}, {}, {}) /\ [][ZipNext]_vars

\* one handleSubmit followed by any use of the Download ZIP button, or one
\* archive assembled by a route
ReportSpec ==
  /\ RunInit({"client", "zip"}, {}, ExtractedLists(MaxRefs))
  /\ [][CliNext \/ ZipNext]_vars

\* the steps of handleSubmit
handleSubmit ==
  \/ CliSubmit \/ CliExtractFailed \/ CliExtracted \/ WorkerSettle \/ WorkerTake
  \/ PoolJoin \/ RetryStart \/ RetrySettle \/ CliReport

\* one handleSubmit over at most MaxFairRefs references; every request ends
\* (it is answered, fails or is aborted by its timer) and the event loop runs
\* every continuation that is ready
CliFairSpec ==
  /\ RunInit({"client"}, {}, ExtractedLists(MaxFairRefs))
  /\ [][CliNext]_vars
  /\ WF_vars(handleSubmit)

\* the Home component from its mount on, with at most MaxRuns submissions
HomeSpec == RunInit({"home"}, {}, {}) /\ [][HomeNext]_vars

\* one detectAccessBlocker call
DetectSpec == RunInit({"detect"}, {}, {}) /\ [][Detect]_vars

\* one reference processed by one of the routes
JobSpec == RunInit({"job"}, {}, {}) /\ [][JobNext]_vars

\* the same; the event loop runs every continuation that is ready and every
\* timer that is due
JobFairSpec ==
  /\ RunInit({"job"}, {}, {})
  /\ [][JobNext]_vars
  /\ WF_vars(JobNext)

\* one POST /api/process-references-batch of 251 references, with a batchSize
\* from 1 to the default
LongBatchInit ==
  /\ RunInit({"server"}, {Ascending(MaxZipFiles + 1)}, {})
  /\ batchSize \in 1..DefaultBatchSize

LongBatchSpec == LongBatchInit /\ [][SrvNext]_vars

\* one POST /api/process-references-batch; the event loop runs every
\* continuation that is ready
SrvFairSpec ==
  /\ RunInit({"server"}, RefLists(MaxSrvRefs), {})
  /\ [][SrvNext]_vars
  /\ WF_vars(SrvNext)

\* ------------------------------------------------------------------ claims

\* each id of list occurs in exactly one record of rs, and rs has no other record
ExactlyOnce(rs, list) ==
  /\ Len(rs) = Len(list)
  /\ \A id \in Ids(list) : Cardinality({k \in DOMAIN rs : rs[k].id = id}) = 1
  /\ \A k \in DOMAIN rs : rs[k].status \in {"downloaded", "failed"}

Reported == entry = "client" /\ cliPc = "done" /\ report # NoReport

\* C1: a batch run over N references with distinct ids ends with exactly N
\* terminal results, one per id: the results array of the batch route, and
\* the references of the client's final report.
C1_OneResultPerReference ==
  /\ (entry = "server" /\ srvPc = "responded") => ExactlyOnce(results, refs)
  /\ Reported => ExactlyOnce(report.references, refs)

\* the route answered a list of 3 processed in chunks of 2
C1_Witness ==
  /\ entry = "server" /\ srvPc = "responded"
  /\ Len(refs) = 3 /\ actualBatchSize = 2 /\ Len(results) = 3

\* the status a reference ends with, given how its own processing ended
OwnStatus(id) == IF fate[id] = NoError THEN "downloaded" ELSE "failed"

\* every record of rs is about a processed reference and carries the status
\* that reference's own outcome gives, whatever happened to the others
OwnOutcomes(rs) ==
  \A k \in DOMAIN rs :
    /\ fate[rs[k].id] # NotStarted
    /\ rs[k].status = OwnStatus(rs[k].id)

\* C2: an error while processing one reference becomes a Failed result of
\* that reference alone: the run still ends with a result for every
\* reference, each with the status its own outcome gives, and a worker leaves
\* the pool only when no reference is left to take.
C2_FailureIsolated ==
  /\ (entry = "server" /\ srvPc = "responded") =>
        (ExactlyOnce(results, refs) /\ OwnOutcomes(results))
  /\ Reported =>
        (ExactlyOnce(report.references, refs) /\ OwnOutcomes(report.references))
  /\ (entry = "client" /\ cliPc = "pool") =>
        \A w \in DOMAIN workers : workers[w].pc = "done" => index >= Len(refs)
  /\ entry = "client" =>
        \A k \in DOMAIN references :
          references[k].status \in {"downloaded", "failed"}
            => references[k].status = OwnStatus(references[k].id)

\* 5 references, the first one timed out (also when replayed), the other 4
\* were downloaded
C2_Witness ==
  /\ Reported /\ Len(refs) = 5
  /\ report.failedCount = 1 /\ report.successCount = 4
  /\ report.references[1].status = "failed"
  /\ report.references[1].error = CliErrAbort

\* C3: for every non-empty list and every integer batchSize the batch route
\* eventually responds, given that every processSingleReference call ends.
C3_BatchResponds == (srvPc = "loop") ~> (srvPc = "responded")

PoolJoined == entry = "client" /\ cliPc \in {"retry", "retryAwait", "final"}

\* C5: in the client pool no index is taken twice, the workers in flight hold
\* pairwise distinct indexes, and when the pool has ended every index was
\* taken exactly once.
C5_EachIndexTakenOnce ==
  /\ \A k \in DOMAIN takenBy : takenBy[k] <= 1
  /\ \A v, w \in Inflight :
       v # w => workers[v].currentIndex # workers[w].currentIndex
  /\ PoolJoined => \A k \in DOMAIN takenBy : takenBy[k] = 1

\* the pool of 4 workers has ended on 5 references
C5_Witness ==
  /\ PoolJoined /\ Len(refs) = 5
  /\ \A k \in 0..4 : takenBy[k] = 1


Closed(s) == sessions[s].state = "closed"

OpenSessions == {s \in DOMAIN sessions : ~Closed(s)}

\* C6: wherever renderUrlToPdf hands control back (return, throw) or starts
\* its next attempt, every browser session the call launched is closed.
C6_SessionsClosedOnExit ==
  (rPc \in {"returned", "thrown", "launch"})
    => \A s \in DOMAIN sessions : Closed(s)

\* the call threw after its third attempt, each attempt having launched a session
C6_Witness ==
  /\ rPc = "thrown" /\ Len(sessions) = 3
  /\ \A s \in DOMAIN sessions : Closed(s)

\* C7: a render job holds at most one open session, and every operation
\* (page operation, capture, close) is issued on a session by the attempt that
\* launched it.
C7_SessionOwnedByOneAttempt ==
  /\ Cardinality(OpenSessions) <= 1
  /\ \A u \in uses : u.session # 0 => sessions[u.session].attempt = u.by

\* C8: once the blocker check fired in an attempt, that attempt stays the last
\* one: no launch, capture or return follows, and the call fails with the
\* Blocked error.
C8_BlockedNeverRetried ==
  blockedAt # 0 =>
    /\ attempt + 1 = blockedAt
    /\ rPc \in {"catch", "decide", "thrown"}
    /\ lastError = ErrBlocked

\* blocked on the first attempt: the call threw having launched one session
C8_Witness ==
  /\ blockedAt = 1 /\ rPc = "thrown"
  /\ Len(sessions) = 1 /\ lastError = ErrBlocked

\* C9: one call makes at most 3 attempts.
C9_AtMostThreeAttempts ==
  /\ attempt + 1 <= 3
  /\ Len(sessions) <= 3

\* the third attempt failed with a retryable error and the call threw
C9_Witness ==
  /\ rPc = "thrown" /\ attempt = 2 /\ IsRetryable(lastError)

\* the retryable classes as the claim names them
RetryableClass(m) ==
  /\ \/ "execution context" \in m
     \/ "target closed" \in m
     \/ "navigation" \in m
     \/ "protocol error" \in m
     \/ "net::" \in m
  /\ "err_blocked_by_client" \notin m
  /\ "some page resources were blocked" \notin m
  /\ "[captcha_blocked]" \notin m

\* C10: after a failed attempt that is not the third, another attempt starts
\* if and only if the error is of a retryable class; a Blocked error and an
\* error attributed to blocked sub-resources (ERR_BLOCKED_BY_CLIENT) never
\* start one.
C10_RetryIffRetryableClass ==
  \A d \in decisions :
    d.attempt < 2 => (d.retry <=> RetryableClass(d.error))

\* the third attempt failed with a retryable error and renderUrlToPdf threw
Exhausted == rPc = "thrown" /\ attempt = maxRetries /\ IsRetryable(raised)

\* C11: when all 3 attempts of a render job fail with retryable errors, the
\* job's result is failed and carries the message of the error of the last
\* attempt, in the batch route and in the process-reference route.
C11_LastErrorPreserved ==
  Exhausted =>
    /\ lastError = raised
    /\ ProcessSingleReference(1, lastError)
         = [id |-> 1, status |-> "failed", error |-> raised]
    /\ ProcessReferenceRoute(1, lastError)
         = [id |-> 1, status |-> "failed", error |-> raised]

\* three attempts failed, the third with another error than the second
C11_Witness ==
  /\ Exhausted
  /\ Len(sessions) = 3
  /\ \E d \in decisions : d.retry /\ d.attempt = 1 /\ d.error # raised

\* C12: within one attempt the load tier runs only when the DOM-parsed tier
\* raised a timeout, the attempt proceeds after a failed load tier only when
\* that tier raised a timeout, and a navigation error that is not a timeout
\* aborts the attempt: no later tier, no blocker detection, no capture.
C12_TiersOnlyAfterTimeout ==
  /\ rPc = "gotoLoad" => nav = << "timeout" >>
  /\ rPc \in {"check", "pdf"} => \A k \in DOMAIN nav : nav[k] # "error"

\* the reference was classified and its processing started
Dispatched == entry = "job" /\ jobPc \notin {"start", "skipped"}

\* C13: for a reference isPdfUrl classifies as a direct document,
\* renderUrlToPdf is never invoked and no browser is launched, on success and
\* after a failed download alike, in each of the four routes.
C13_DirectDocumentNeverRendered ==
  (entry = "job" /\ isPdfUrl(sourceUrl)) =>
     /\ calls \subseteq {"downloadPdf", "fetch"}
     /\ Dispatched => "downloadPdf" \in calls

\* create-zip processed a direct document whose download failed
C13_Witness ==
  /\ entry = "job" /\ route = "create-zip" /\ isPdfUrl(sourceUrl)
  /\ jobPc = "done" /\ jobResult.status = "omitted"
  /\ calls = {"downloadPdf", "fetch"}

\* the spellings of the extension, compared without regard to case
PdfSpellings ==
  { << Dot, p, d, f >> : p \in {"p", "P"}, d \in {"d", "D"}, f \in {"f", "F"} }

\* the string parses as a URL and its path component ends in ".pdf"
IsDirectDocument(u) ==
  /\ u.origin # << >>
  /\ \E sp \in PdfSpellings : EndsWith(u.path, sp)

\* C14: isPdfUrl(url) is true exactly when url parses as a URL and its path
\* component ends in ".pdf" whatever the letter case; the query string and
\* the fragment have no influence; every other well-formed URL is rendered.
C14_IsPdfUrlByPath ==
  entry = "job" =>
    /\ isPdfUrl(sourceUrl) <=> IsDirectDocument(urlParts)
    /\ \A q \in UrlQueries, f \in UrlFragments :
         isPdfUrl(UrlString([urlParts EXCEPT !.query = q, !.fragment = f]))
           = isPdfUrl(sourceUrl)
    /\ (Dispatched /\ urlParts.origin # << >> /\ ~IsDirectDocument(urlParts))
         => "renderUrlToPdf" \in calls

\* a URL whose path ends in ".PDF" and that has a query string was classified
\* as a direct document, and one whose query string alone ends in ".pdf" was
\* not (the two states are the two halves of the witness)
C14_Witness ==
  /\ Dispatched
  /\ urlParts.origin # << >>
  /\ urlParts.query # << >>
  /\ \/ /\ urlParts.path = << "/", "a", Dot, "P", "D", "F" >>
        /\ "downloadPdf" \in calls
     \/ /\ urlParts.path = << "/", "a" >>
        /\ EndsWith(urlParts.query, PdfSuffix)
        /\ "renderUrlToPdf" \in calls

\* C15: a reference whose sourceUrl does not parse as an absolute URL is
\* never dispatched: no fetch is issued and no browser is launched for it.
C15_MalformedNeverDispatched ==
  (entry = "job" /\ ~ParseUrl(sourceUrl).ok) => calls = {}

\* C16: every downloadPdf call eventually completes, whatever the remote
\* server does.
C16_DownloadCompletes ==
  (entry = "job" /\ jobPc = "fetch") ~> (jobPc = "done")

\* the reference a replay in flight is about
Replaying ==
  CHOOSE r \in Range(references) : r.id = Head(retryQueue)

\* C17: the batch-level replay takes only references whose first-pass failure
\* is of the timeout or network class: never one that failed with a Blocked
\* reason, never one that failed with an HTTP error status of the
\* direct-document fetch.
C17_OnlyTransientReplayed ==
  (entry = "client" /\ cliPc = "retryAwait") =>
     /\ "[CAPTCHA_BLOCKED]" \notin Replaying.error
     /\ Replaying.error \notin {CliErrHttp404, CliErrHttp511}

\* C18: the replay starts only after every first-pass worker has finished,
\* replays run one at a time, each reference is replayed at most once, and a
\* downloaded reference is never replayed.
C18_ReplaySequentialOnce ==
  entry = "client" =>
    /\ cliPc \in {"retry", "retryAwait"} =>
         /\ \A w \in DOMAIN workers : workers[w].pc \in {"done", "unused"}
         /\ Cardinality({k \in DOMAIN references :
                           references[k].status = "processing"})
              = (IF cliPc = "retryAwait" THEN 1 ELSE 0)
    /\ \A id \in Ids(refs) :
         /\ Len(replays[id]) <= 1
         /\ \A k \in DOMAIN replays[id] : replays[id][k] = "failed"

\* the run ended after two replays, a downloaded reference not being replayed
C18_Witness ==
  /\ Reported
  /\ Cardinality({id \in Ids(refs) : Len(replays[id]) = 1}) = 2
  /\ \E k \in DOMAIN references :
       /\ fate[references[k].id] = NoError
       /\ replays[references[k].id] = << >>

\* C19: for every reference the render attempts of a whole batch run, the
\* renderer's retries and the batch-level replay counted together, are at
\* most 3.
C19_AttemptsWithinCeiling ==
  entry = "client" => \A id \in Ids(refs) : renders[id] <= maxRetries + 1

\* C20: creating the archive starts no download and no render: no reference
\* is processed again by the archive step.
C20_ArchiveUsesComputedBytes ==
  entry = "client" => zipJobs = {}

\* the references behind the entries of the archive, and those of the request
EntryIds == {entries[k].of : k \in DOMAIN entries}

RequestIds == {zipRefs[k].id : k \in DOMAIN zipRefs}

\* create-zip has answered with an archive
Archived ==
  entry = "zip" /\ zipRoute = "create-zip" /\ zipPc = "done" /\ zipResponse.zip

\* C21: the archive create-zip returns holds one entry for each reference of
\* the request, that is for each reference the batch reported Downloaded:
\* none is missing and none is extra.
C21_ArchiveHoldsEveryDownloaded ==
  (Archived /\ \A k \in DOMAIN zipRefs : ~InvalidReference(zipRefs[k]))
    => /\ EntryIds = RequestIds
       /\ Len(entries) = Len(zipRefs)

\* C22: create-zip never produces an archive of more than 250 entries; a
\* request of more than 250 references is answered 400 with the message that
\* names the ceiling, before any reference is downloaded or rendered.
C22_CeilingBeforeAnyJob ==
  (entry = "zip" /\ zipRoute = "create-zip") =>
    /\ Len(entries) <= MaxZipFiles
    /\ (Len(zipRefs) > MaxZipFiles /\ zipPc # "idle") =>
         /\ zipPc = "done"
         /\ zipResponse.status = 400
         /\ zipResponse.error = "Maximum 250 files allowed per ZIP"
         /\ ~zipResponse.zip
         /\ zipStarted = 0
         /\ archiver = "none"

C22_Witness ==
  /\ entry = "zip" /\ zipRoute = "create-zip"
  /\ Len(zipRefs) = MaxZipFiles + 1
  /\ zipPc = "done"
  /\ zipResponse.status = 400
  /\ zipStarted = 0

\* C23: a batch of more than 250 references is rejected before any of its
\* references is downloaded or rendered.
C23_LongBatchRejected ==
  (entry = "server" /\ Len(refs) > MaxZipFiles) =>
    /\ srvPc \in {"idle", "rejected"}
    /\ \A id \in Ids(refs) : fate[id] = NotStarted

\* C24: assembling an archive from an entry set that is empty after
\* filtering fails and yields no archive: createZip does not resolve when no
\* file was appended, and create-zip answers an error when no reference gave
\* a file.
C24_EmptySetIsAnError ==
  entry = "zip" =>
    /\ (archiver # "none" /\ entries = << >>) => promise.state # "resolved"
    /\ (zipRoute = "create-zip" /\ zipPc = "done" /\ fileBuffers = << >>) =>
         zipResponse.status = 400 /\ ~zipResponse.zip

\* C25: when the output exceeds 500MB or a time ceiling is passed, createZip
\* rejects and stays rejected whatever the archiver does later, its caller
\* gets no archive, and create-zip answers 413 for the size and 504 for the
\* time, without zipBase64.
C25_OverLimitFails ==
  entry = "zip" =>
    /\ totalSize > maxSize => promise.state = "rejected"
    /\ promise.reason \in {CzErrSize, CzErrTimeout} => promise.state = "rejected"
    /\ (zipPc = "done" /\ zipResponse.zip) =>
         promise.state = "resolved" /\ totalSize <= maxSize /\ ~raceLost
    /\ (zipRoute = "create-zip" /\ zipPc = "done" /\ promise.state # "none") =>
         /\ (raceLost \/ promise.reason = CzErrTimeout) =>
              zipResponse.status = 504 /\ ~zipResponse.zip
         /\ (~raceLost /\ promise.reason = CzErrSize) =>
              zipResponse.status = 413 /\ ~zipResponse.zip

C25_Witness ==
  /\ entry = "zip" /\ zipRoute = "create-zip"
  /\ zipPc = "done"
  /\ zipResponse.status = 413
  /\ totalSize > maxSize
  /\ archiver = "ended"

\* C26: no entry name written into an archive holds one of the characters
\* < > : " / \ | ? *, whatever file names createZip is given.
C26_NoReservedCharacters ==
  entry = "zip" =>
    \A k \in DOMAIN entries : \A j \in DOMAIN entries[k].name :
      entries[k].name[j] \notin {"<", ">", ":", "\"", "/", "\\", "|", "?", "*"}

\* an entry was appended for a file whose name holds two reserved characters
C26_Witness ==
  /\ entry = "zip"
  /\ entries # << >>
  /\ \E k \in DOMAIN fileBuffers :
       /\ fileBuffers[k].content
       /\ Cardinality({j \in DOMAIN fileBuffers[k].filename :
                         fileBuffers[k].filename[j] \in {"<", ">", ":"}}) = 2

\* C27: the entry names of an archive create-zip assembles are pairwise
\* different, for a request whose references have different ids: equal titles
\* after sanitization are told apart by the id in front.
C27_UniqueEntryNames ==
  (entry = "zip" /\ zipRoute = "create-zip") =>
    \A a, b \in DOMAIN entries : a # b => entries[a].name # entries[b].name

\* an archive was returned for two references whose titles sanitize to one
\* name
C27_Witness ==
  /\ Archived
  /\ EntryIds = {1, 11}
  /\ \A k \in DOMAIN zipRefs :
       sanitizeFilename(zipRefs[k].title, zipRefs[k].id) = << "a", "_", "b" >>

\* C28: a failed archive assembly leaves the report as it was: the result of
\* the page lists every reference with the status, filename and error the
\* reference has, with matching counts, whether or not an archive was made
\* by handleSubmit or by handleDownloadZip; process-article answers its
\* report, without zipBase64 when createZip rejected.
C28_ReportSurvivesFailedArchive ==
  /\ (entry = "client" /\ cliPc = "done" /\ report # NoReport) =>
       /\ Len(report.references) = Len(references)
       /\ \A k \in DOMAIN references :
            /\ report.references[k].id = references[k].id
            /\ report.references[k].status = references[k].status
            /\ report.references[k].pdfFilename = references[k].pdfFilename
            /\ report.references[k].error = references[k].error
       /\ report.successCount = CountStatus(references, "downloaded")
       /\ report.failedCount = CountStatus(references, "failed")
       /\ report.successCount + report.failedCount = Len(refs)
  /\ (entry = "zip" /\ zipRoute = "process-article" /\ zipPc = "done") =>
       /\ zipResponse.status = 200
       /\ zipResponse.references = processedReferences
       /\ Len(processedReferences) = Len(zipRefs)
       /\ zipResponse.successCount = Len(fileBuffers)
       /\ zipResponse.successCount + zipResponse.failedCount = Len(zipRefs)
       /\ promise.state = "rejected" => ~zipResponse.zip

\* handleSubmit ended without an archive although references were
\* downloaded, and a later handleDownloadZip failed too
C28_Witness ==
  /\ entry = "client" /\ cliPc = "done"
  /\ report # NoReport
  /\ ~report.zip
  /\ report.successCount > 0
  /\ report.failedCount > 0
  /\ zipJobs # {}
  /\ pageError = "Failed to download ZIP"

\* C29: once the extraction has returned one reference or more, handleSubmit
\* ends by publishing a result that lists every reference once, each
\* downloaded or failed, with loading set to false.
C29_ReportEventuallyPublished ==
  (entry = "client" /\ cliPc = "pool")
    ~> /\ cliPc = "done"
       /\ ~loading
       /\ report # NoReport
       /\ Len(report.references) = Len(refs)
       /\ \A k \in DOMAIN refs :
            /\ report.references[k].id = refs[k]
            /\ report.references[k].status \in {"downloaded", "failed"}

\* a result was published for a run in which every reference failed
C29_Witness ==
  /\ entry = "client" /\ cliPc = "done"
  /\ ~loading
  /\ Len(refs) >= 2
  /\ report # NoReport
  /\ report.failedCount = Len(refs)
  /\ \A k \in DOMAIN refs : report.references[k].status = "failed"

\* the length of the pdfBuffer of the job: the body fetched by downloadPdf,
\* or the document printed by renderUrlToPdf
JobBufferLength == IF "fetch" \in calls THEN BodyLength(remote) ELSE 1

\* C30: a result of process-reference or of process-references-batch with
\* status downloaded has output bytes and a filename and no error, which the
\* page stores; one with status failed has an error and neither bytes nor a
\* filename.
C30_ExactlyOneOfOutputAndError ==
  (/\ entry = "job" /\ jobPc = "done"
   /\ route \in {"process-reference", "process-references-batch"}) =>
    LET data == JobAnswer(jobResult, JobBufferLength) IN
    /\ data.status \in {"downloaded", "failed"}
    /\ data.status = "downloaded" =>
         /\ data.error = NoError
         /\ data.pdfFilename
         /\ data.pdfBase64 > 0
         /\ route = "process-reference" => StoresBuffer(data)
    /\ data.status = "failed" =>
         /\ data.error # NoError
         /\ ~data.pdfFilename
         /\ data.pdfBase64 = 0

\* the number of records of rs with status st
Tally(rs, st) == Cardinality({k \in DOMAIN rs : rs[k].status = st})

\* C31: in every batch report the counts agree with the per-reference
\* results: the succeeded count is the number of results with status
\* downloaded, the failed count the number with status failed, and their sum
\* is the number of input references (batch route: processed, failed,
\* results; client report: successCount, failedCount, totalReferences).
C31_CountsAgree ==
  /\ (entry = "server" /\ srvPc \in {"loop", "responded"}) =>
        /\ processed = Tally(results, "downloaded")
        /\ failed = Tally(results, "failed")
        /\ processed + failed = Len(results)
  /\ (entry = "server" /\ srvPc = "responded") => Len(results) = Len(refs)
  /\ Reported =>
        /\ report.successCount = Tally(report.references, "downloaded")
        /\ report.failedCount = Tally(report.references, "failed")
        /\ report.total = Len(refs)
        /\ report.successCount + report.failedCount = report.total

\* the route answered 3 references in chunks of 2 with one failure, and the
\* page reported a run of 5 with failures and downloads
C31_Witness ==
  \/ /\ entry = "server" /\ srvPc = "responded"
     /\ Len(refs) = 3 /\ actualBatchSize = 2
     /\ processed = 2 /\ failed = 1
  \/ /\ Reported /\ Len(refs) = 5
     /\ report.successCount = 3 /\ report.failedCount = 2

\* the patterns of the list that match the lowered text
Matching(text) ==
  { k \in DOMAIN BLOCK_PAGE_PATTERNS :
      \E m \in BLOCK_PAGE_PATTERNS[k].regex : Includes(LowerWords(text), m) }

\* C32: detectAccessBlocker returns the redirect reason whenever the URL
\* holds a captcha, verify or blocked marker, whatever the content; otherwise
\* the reason of the earliest pattern of the list that matches the content;
\* otherwise the widget reason if a widget marker is present; otherwise none.
C32_FirstMatchWins ==
  (entry = "detect" /\ blockerReason # NotCalled) =>
    LET urlHit == \E k \in DOMAIN pageUrl : LowerWords(pageUrl)[k] \in UrlMarkers
        widget == \E k \in DOMAIN html : LowerWords(html)[k] \in WidgetMarkers
        hits == Matching(html)
    IN  /\ urlHit => blockerReason = RedirectReason
        /\ (~urlHit /\ hits # {}) =>
             \E k \in hits : /\ \A j \in hits : k <= j
                              /\ blockerReason = BLOCK_PAGE_PATTERNS[k].reason
        /\ (~urlHit /\ hits = {} /\ widget) => blockerReason = WidgetReason
        /\ (~urlHit /\ hits = {} /\ ~widget) => blockerReason = NoReason

\* a text matching the patterns 8 and 10, the later one first in the text,
\* under a URL without a marker, was given the reason of pattern 8
C32_Witness ==
  /\ entry = "detect"
  /\ pageUrl = << "verification" >>
  /\ html = << "page", "not", "found", "Access", "DENIED" >>
  /\ Matching(html) = {8, 10}
  /\ blockerReason = BLOCK_PAGE_PATTERNS[8].reason

\* name starts with the id followed by " - " and ends in ".pdf"
IdAndSuffix(name, id) ==
  LET prefix == IdString(id) \o << " ", "-", " " >> IN
  /\ Len(name) >= Len(prefix) + Len(PdfSuffix)
  /\ SubSeq(name, 1, Len(prefix)) = prefix
  /\ SubSeq(name, Len(name) - 3, Len(name)) = << ".", "p", "d", "f" >>

\* C33: the file name of every downloaded reference starts with the id
\* followed by " - " and ends in ".pdf": for a direct document whatever the
\* letter case of its extension, for a rendered page whatever its title.
C33_NameHasIdAndSuffix ==
  (entry = "zip" /\ zipRoute \in {"create-zip", "process-article"}) =>
    /\ \A k \in DOMAIN fileBuffers :
         IdAndSuffix(fileBuffers[k].filename, fileBuffers[k].of)
    /\ \A k \in DOMAIN processedReferences :
         processedReferences[k].status = "downloaded" =>
           IdAndSuffix(processedReferences[k].pdfFilename, processedReferences[k].id)

\* process-article reported as downloaded a direct document named A.PDF and a
\* page with a title of 82 characters, cut to 80
C33_Witness ==
  /\ entry = "zip" /\ zipRoute = "process-article" /\ zipPc = "done"
  /\ Len(processedReferences) = 2
  /\ \E a, b \in DOMAIN processedReferences :
       /\ processedReferences[a].id = 3
       /\ processedReferences[a].pdfFilename =
            << "3", " ", "-", " ", "R", "e", "f", "e", "r", "e", "n", "c", "e", "_", "3",
               ".", "p", "d", "f" >>
       /\ processedReferences[b].id = 4
       /\ Len(processedReferences[b].pdfFilename) = 4 + MaxFilenameLength + 4

\* C34: every content read and every capture of renderUrlToPdf, the capture
\* made after an ERR_BLOCKED_BY_CLIENT error included, is issued on a session
\* that is open, and no session is closed twice.
C34_OperationsWhileSessionOpen ==
  entry = "render" =>
    /\ \A u \in uses : u.op \in {"content", "pdf"} => u.open
    /\ \A s \in DOMAIN sessions : sessions[s].closes <= 1

\* the capture after ERR_BLOCKED_BY_CLIENT is issued on a session that the
\* catch block has closed
C34_CaptureAfterClose ==
  ~(/\ entry = "render" /\ attempt = 0
    /\ \E u \in uses : u.op = "pdf" /\ ~u.open /\ sessions[u.session].closes = 1)

\* a session is closed a second time by a later attempt
C34_ClosedTwice ==
  ~(entry = "render" /\ \E s \in DOMAIN sessions : sessions[s].closes = 2)

\* C35: at every moment of a run processedCount is at most the number of
\* references, the replay of failed references included.
C35_ProgressAtMostAll ==
  entry = "client" => processedCount <= Len(refs)

\* the handleSubmit calls made by the auto-submit effect
AutoRuns == {r \in DOMAIN runs : runs[r].by = "effect"}

\* C36: a Home mounted with an initialUrl has handleSubmit triggered by the
\* effect at most once: after a run that ends in an extraction error, and
\* after resetToHome, no request is made until the user submits the form.
C36_AutoSubmitAtMostOnce ==
  entry = "home" => Cardinality(AutoRuns) <= 1

\* the effect submitted again after the extraction of its first run failed,
\* without any reset in between
C36_ResubmitAfterExtractionError ==
  ~(/\ entry = "home" /\ AutoRuns = {1, 2}
    /\ runs[1].pc = "ended" /\ ~runs[1].abandoned /\ runs[1].items = 0
    /\ runs[2].url)

\* the effect submitted the emptied form after resetToHome
C36_ResubmitAfterReset ==
  ~(/\ entry = "home" /\ AutoRuns = {1, 2}
    /\ runs[1].abandoned /\ ~runs[2].url)

\* the results written, since processedCount was last reset, by a run that
\* was abandoned with resetToHome and is not the latest run
StaleWrites ==
  {w \in homeHist.writes : runs[w.run].abandoned /\ w.run < Len(runs)}

\* C37: a run abandoned with resetToHome never modifies the state of a later
\* run: its results change no reference of the later run's list, store no
\* bytes during the later run and do not advance processedCount.
C37_AbandonedRunIsInert ==
  entry = "home" =>
    /\ \A w \in StaleWrites : ~(w.hit /\ homeHist.list # w.run)
    /\ \A b \in pdfBuffersRef : runs[b.run].abandoned => b.run = Len(runs)
    /\ StaleWrites = {}

\* a reference of the second run carries the status downloaded written by a
\* result of the first run, which was abandoned
C37_StaleStatus ==
  ~(/\ entry = "home" /\ Len(runs) = 2 /\ homeHist.list = 2
    /\ runs[1].abandoned /\ runs[2].pc = "pool" /\ 1 \in runs[2].inflight
    /\ [id |-> 1, run |-> 1, hit |-> TRUE] \in homeHist.writes
    /\ home.references[1].status = "downloaded"
    /\ [id |-> 1, run |-> 1] \in pdfBuffersRef
    /\ home.processedCount = 1)

\* C38: the name of every entry of an archive a route assembles equals the
\* file name the route built for the reference and reports in its result:
\* the replacement inside createZip changes none of these names.
C38_EntryNameIsReportedName ==
  (entry = "zip" /\ zipRoute \in {"create-zip", "process-article"}) =>
    /\ \A k \in DOMAIN entries : \A j \in DOMAIN zipRefs :
         zipRefs[j].id = entries[k].of => entries[k].name = PdfFilename(zipRefs[j])
    /\ \A k \in DOMAIN entries : \A j \in DOMAIN processedReferences :
         processedReferences[j].id = entries[k].of =>
           entries[k].name = processedReferences[j].pdfFilename

====
